---- MODULE Spec2Model ----
(***************************************************************************)
(* Model of the zheide garment customiser: the TextureEditor gesture       *)
(* controller, the ControlPanel configuration updates, the canvasService   *)
(* texture compositor and the App texture-update pipeline.                 *)
(*                                                                         *)
(* Numbers are exact rationals <<n, d>> (d > 0, lowest terms); <<1,0>>,    *)
(* <<-1,0>> and <<0,0>> stand for +Infinity, -Infinity and NaN, so that    *)
(* the JavaScript results of a division by zero are representable.         *)
(* Angles in radians are held as their coefficient of pi (pi/2 is 1/2).    *)
(* Math.hypot and Math.atan2 are evaluated only on the arguments for which *)
(* their value is rational in this representation; the pointer positions   *)
(* the actions draw are restricted to those.                               *)
(***************************************************************************)
EXTENDS Integers, Sequences, FiniteSets, TLC

VARIABLES
    config,            \* App: const [config, setConfig] = useState(INITIAL_STATE)
    activeSide,        \* ControlPanel: activeSide
    activeElement,     \* TextureEditor: activeElement ("none" is null)
    isDragging,        \* TextureEditor: isDragging
    interactionType,   \* TextureEditor: interactionType ("none" is null)
    dragRef,           \* TextureEditor: dragRef.current
    effectSide,        \* the activeSide closed over by the window listeners
    containerRect,     \* containerRef.current.getBoundingClientRect()
    containerMounted,  \* containerRef.current is not null
    uploads,           \* FileReader loads in flight: the side closed over
    moves,             \* number of pointer-move updates applied so far
    hist,              \* history: the last handler that ran and its inputs
    jobs,              \* the generateTexture calls: canvas, position, result
    session,           \* App: session ("null" or "user")
    authLoading,       \* App: authLoading
    isLoading,         \* App: isLoading
    isUpdatingTexture, \* App: isUpdatingTexture
    error,             \* App: error is not null
    service,           \* App: sketchfabService.current and its fields
    init,              \* the viewer initialisation: position, attempts, closure
    debounce,          \* the 500 ms timer of the texture-update effect
    viewer,            \* the viewer: the textures set on the material, in order
    edits,             \* number of base colour changes so far
    logout             \* ControlPanel: the handleLogout call and its position

gvars == <<config, activeSide, activeElement, isDragging, interactionType,
           dragRef, effectSide, containerRect, containerMounted, uploads,
           moves, hist>>

cvars == <<jobs>>

avars == <<session, authLoading, isLoading, isUpdatingTexture, error, service,
           init, debounce, viewer, edits, logout>>

vars == <<gvars, cvars, avars>>

-----------------------------------------------------------------------------
(* Exact arithmetic on JavaScript numbers                                  *)

Abs(n) == IF n < 0 THEN -n ELSE n

Sign(n) == IF n < 0 THEN -1 ELSE IF n > 0 THEN 1 ELSE 0

RECURSIVE GCD(_, _)
GCD(a, b) == IF b = 0 THEN a ELSE GCD(b, a % b)

Norm(n, d) ==
    IF d = 0 THEN <<Sign(n), 0>>
    ELSE LET g == GCD(Abs(n), Abs(d))
             s == IF d < 0 THEN -1 ELSE 1
         IN  <<(s * n) \div g, (s * d) \div g>>

Q(n) == <<n, 1>>

Frac(n, d) == Norm(n, d)

NaN == <<0, 0>>

IsNaN(a) == a = NaN

IsFinite(a) == a[2] # 0

RNeg(a) == <<-a[1], a[2]>>

RAdd(a, b) ==
    IF IsNaN(a) \/ IsNaN(b) THEN NaN
    ELSE IF ~IsFinite(a) THEN (IF ~IsFinite(b) /\ b # a THEN NaN ELSE a)
    ELSE IF ~IsFinite(b) THEN b
    ELSE Norm(a[1] * b[2] + b[1] * a[2], a[2] * b[2])

RSub(a, b) == RAdd(a, RNeg(b))

RMul(a, b) == Norm(a[1] * b[1], a[2] * b[2])

RDiv(a, b) ==
    IF b[1] < 0 THEN Norm(-(a[1] * b[2]), -(a[2] * b[1]))
    ELSE Norm(a[1] * b[2], a[2] * b[1])

RLt(a, b) ==
    IF IsNaN(a) \/ IsNaN(b) THEN FALSE
    ELSE IF ~IsFinite(a) /\ ~IsFinite(b) THEN a[1] < b[1]
    ELSE a[1] * b[2] < b[1] * a[2]

RLe(a, b) ==
    IF IsNaN(a) \/ IsNaN(b) THEN FALSE ELSE ~RLt(b, a)

\* Math.max / Math.min: NaN if either argument is NaN
MathMax(a, b) ==
    IF IsNaN(a) \/ IsNaN(b) THEN NaN ELSE IF RLt(a, b) THEN b ELSE a

MathMin(a, b) ==
    IF IsNaN(a) \/ IsNaN(b) THEN NaN ELSE IF RLt(b, a) THEN b ELSE a

\* Math.trunc of a finite rational
RTrunc(a) == IF a[1] >= 0 THEN a[1] \div a[2] ELSE -((-a[1]) \div a[2])

\* Math.floor of a finite rational
RFloor(a) == a[1] \div a[2]

\* the JavaScript remainder a % m: the result takes the sign of the dividend
JSRem(a, m) ==
    IF ~IsFinite(a) \/ IsNaN(m) \/ m[1] = 0 THEN NaN
    ELSE IF ~IsFinite(m) THEN a
    ELSE RSub(a, RMul(m, Q(RTrunc(RDiv(a, m)))))

RECURSIVE SqrtSearch(_, _, _)
SqrtSearch(n, lo, hi) ==
    IF lo >= hi THEN lo
    ELSE LET mid == (lo + hi + 1) \div 2
         IN  IF mid * mid <= n THEN SqrtSearch(n, mid, hi)
             ELSE SqrtSearch(n, lo, mid - 1)

\* floor of the square root of a natural number
ISqrt(n) == SqrtSearch(n, 0, IF n < 46340 THEN n ELSE 46340)

IsSquare(n) == LET r == ISqrt(n) IN r * r = n

\* the square root of a finite non-negative rational is rational
SqrtExact(a) == IsFinite(a) /\ a[1] >= 0 /\ IsSquare(a[1]) /\ IsSquare(a[2])

RSqrt(a) == <<ISqrt(a[1]), ISqrt(a[2])>>

\* the arguments on which Math.hypot has a rational value
HypotExact(a, b) == SqrtExact(RAdd(RMul(a, a), RMul(b, b)))

\* Math.hypot(a, b)
MathHypot(a, b) == RSqrt(RAdd(RMul(a, a), RMul(b, b)))

\* the arguments on which Math.atan2 is a rational multiple of pi
AngleExact(y, x) ==
    /\ IsFinite(y) /\ IsFinite(x)
    /\ (y[1] = 0 \/ x[1] = 0 \/ RMul(y, y) = RMul(x, x))

\* Math.atan2(y, x), as a coefficient of pi, in (-1, 1]
MathAtan2(y, x) ==
    IF y[1] = 0 THEN (IF x[1] < 0 THEN Q(1) ELSE Q(0))
    ELSE IF x[1] = 0 THEN (IF y[1] > 0 THEN Frac(1, 2) ELSE Frac(-1, 2))
    ELSE IF x[1] > 0 THEN (IF y[1] > 0 THEN Frac(1, 4) ELSE Frac(-1, 4))
    ELSE (IF y[1] > 0 THEN Frac(3, 4) ELSE Frac(-3, 4))

\* multiplying a coefficient of pi by (180 / Math.PI) gives degrees
RadToDeg(r) == RMul(r, Q(180))

\* (deg * Math.PI) / 180, as a coefficient of pi
DegToRad(deg) == RDiv(deg, Q(180))

-----------------------------------------------------------------------------
(* Configuration (types.ts, App INITIAL_STATE)                             *)

Sides == {"front", "back"}

Elems == {"image", "text"}

Kinds == {"move", "rotate", "scale"}

\* ImageState.src: null
NoSrc == "null"

\* the data URLs a FileReader can deliver
Srcs == {"imgA"}

Transform(x, y, scale, rotation) ==
    [x |-> x, y |-> y, scale |-> scale, rotation |-> rotation]

DEFAULT_VIEW_STATE ==
    [text  |-> [content |-> "", color |-> "#000000", fontFamily |-> "Arial",
                fontSize |-> Q(5),
                transform |-> Transform(Q(50), Q(30), Q(1), Q(0))],
     image |-> [src |-> NoSrc,
                transform |-> Transform(Q(50), Q(50), Q(1), Q(0))]]

INITIAL_STATE ==
    [baseColor |-> "#ffffff",
     front |-> [DEFAULT_VIEW_STATE EXCEPT !.text.content = "ZHEIDE"],
     back  |-> [DEFAULT_VIEW_STATE EXCEPT !.text.content = ""]]

\* JavaScript truthiness of image.src and of text.content
HasImage(view) == view.image.src # NoSrc /\ view.image.src # ""

HasText(view) == view.text.content # ""

Present(view, type) == IF type = "image" THEN HasImage(view) ELSE HasText(view)

-----------------------------------------------------------------------------
(* ControlPanel                                                            *)

\* (mutant) updateActiveSide spreading the configuration its closure took at
\* the mount instead of the latest one
updateActiveSideStale(cfg, side, newView) ==
    [INITIAL_STATE EXCEPT ![side] = newView]

\* (mutant) the helper writing to the side that is active when the updater
\* is applied, not the side of the render that made the call
updateActiveSideLive(cfg, side, newView) == [cfg EXCEPT ![activeSide] = newView]

\* updateActiveSide, with the activeSide its closure holds: setConfig with a
\* functional updater, applied to the latest configuration
updateActiveSide(cfg, side, newView) == [cfg EXCEPT ![side] = newView]

\* the value handleImageUpload's reader.onload gives the updater
UploadedImageNoReset(prevImage, src) == [prevImage EXCEPT !.src = src]

UploadedImage(prevImage, src) ==
    [prevImage EXCEPT !.src = src,
                      !.transform = Transform(Q(50), Q(50), Q(1), Q(0))]

-----------------------------------------------------------------------------
(* TextureEditor: gesture controller                                       *)

DragRefInit ==
    [startX |-> Q(0), startY |-> Q(0),
     initialTransform |-> Transform(Q(0), Q(0), Q(1), Q(0)),
     initialDistance |-> Q(0), initialAngle |-> Q(0),
     centerX |-> Q(0), centerY |-> Q(0)]

\* (mutant) the helper building the transform from the updates alone, the
\* fields they do not name taken from a new element
updateTransformReplacing(view, type, updates) ==
    [view EXCEPT ![type].transform =
        [f \in {"x", "y", "scale", "rotation"} |->
            IF f \in DOMAIN updates THEN updates[f]
            ELSE IF f = "scale" THEN <<1, 1>> ELSE <<0, 1>>]]

\* updateTransform: merge a partial update over the element's transform
updateTransform(view, type, updates) ==
    [view EXCEPT ![type].transform =
        [f \in {"x", "y", "scale", "rotation"} |->
            IF f \in DOMAIN updates THEN updates[f] ELSE @[f]]]

\* the snapshot handleMouseDown / handleTouchStart store in dragRef.current
DragSnapshot(transform, clientX, clientY, rect) ==
    LET centerX == RMul(RDiv(transform.x, Q(100)), rect.width)
        centerY == RMul(RDiv(transform.y, Q(100)), rect.height)
        mouseRelX == RSub(clientX, rect.left)
        mouseRelY == RSub(clientY, rect.top)
    IN  [startX |-> clientX, startY |-> clientY,
         initialTransform |-> transform,
         initialDistance |->
             MathHypot(RSub(mouseRelX, centerX), RSub(mouseRelY, centerY)),
         initialAngle |->
             MathAtan2(RSub(mouseRelY, centerY), RSub(mouseRelX, centerX)),
         centerX |-> centerX, centerY |-> centerY]

\* (mutant) the move branch without the clamp to [0, 100]
MouseMoveUpdateNoClamp(ref, rect, currentX, currentY) ==
    LET deltaX == RSub(currentX, ref.startX)
        deltaY == RSub(currentY, ref.startY)
    IN  [x |-> RAdd(ref.initialTransform.x,
                    RMul(RDiv(deltaX, rect.width), Q(100))),
         y |-> RAdd(ref.initialTransform.y,
                    RMul(RDiv(deltaY, rect.height), Q(100)))]

\* (mutant) the move branch dividing both deltas by the width
MouseMoveUpdateWidthOnly(ref, rect, currentX, currentY) ==
    LET deltaX == RSub(currentX, ref.startX)
        deltaY == RSub(currentY, ref.startY)
    IN  [x |-> MathMax(Q(0), MathMin(Q(100), RAdd(ref.initialTransform.x,
                    RMul(RDiv(deltaX, rect.width), Q(100))))),
         y |-> MathMax(Q(0), MathMin(Q(100), RAdd(ref.initialTransform.y,
                    RMul(RDiv(deltaY, rect.width), Q(100)))))]

\* (mutant) the move branch adding the displacement to the element's
\* current position instead of the position in the snapshot
MouseMoveUpdateFromCurrent(ref, rect, currentX, currentY) ==
    LET deltaX == RSub(currentX, ref.startX)
        deltaY == RSub(currentY, ref.startY)
        percentDeltaX == RMul(RDiv(deltaX, rect.width), Q(100))
        percentDeltaY == RMul(RDiv(deltaY, rect.height), Q(100))
        current == config[effectSide][activeElement].transform
    IN  [x |-> MathMax(Q(0), MathMin(Q(100), RAdd(current.x, percentDeltaX))),
         y |-> MathMax(Q(0), MathMin(Q(100), RAdd(current.y, percentDeltaY)))]

\* the move branch of handleMouseMove
MouseMoveUpdate(ref, rect, currentX, currentY) ==
    LET deltaX == RSub(currentX, ref.startX)
        deltaY == RSub(currentY, ref.startY)
        percentDeltaX == RMul(RDiv(deltaX, rect.width), Q(100))
        percentDeltaY == RMul(RDiv(deltaY, rect.height), Q(100))
    IN  [x |-> MathMax(Q(0), MathMin(Q(100),
                  RAdd(ref.initialTransform.x, percentDeltaX))),
         y |-> MathMax(Q(0), MathMin(Q(100),
                  RAdd(ref.initialTransform.y, percentDeltaY)))]

\* (mutant) the scale branch with the initial distance floored to 1 pixel
MouseScaleUpdateFloored(ref, rect, currentX, currentY) ==
    LET mouseRelX == RSub(currentX, rect.left)
        mouseRelY == RSub(currentY, rect.top)
        currentDist == MathHypot(RSub(mouseRelX, ref.centerX),
                                 RSub(mouseRelY, ref.centerY))
        safeInitialDist == MathMax(ref.initialDistance, Q(1))
        newScale == RMul(ref.initialTransform.scale,
                         RDiv(currentDist, safeInitialDist))
    IN  [scale |-> MathMax(Frac(1, 10), MathMin(Q(5), newScale))]

\* (mutant) the scale branch taking the pivot from the container's size at
\* the pointer-move
MouseScaleUpdateLivePivot(ref, rect, currentX, currentY) ==
    LET mouseRelX == RSub(currentX, rect.left)
        mouseRelY == RSub(currentY, rect.top)
        centerX == RMul(RDiv(ref.initialTransform.x, Q(100)), rect.width)
        centerY == RMul(RDiv(ref.initialTransform.y, Q(100)), rect.height)
        currentDist == MathHypot(RSub(mouseRelX, centerX),
                                 RSub(mouseRelY, centerY))
        safeInitialDist ==
            IF ref.initialDistance = Q(0) \/ IsNaN(ref.initialDistance)
            THEN Q(1) ELSE ref.initialDistance
        newScale == RMul(ref.initialTransform.scale,
                         RDiv(currentDist, safeInitialDist))
    IN  [scale |-> MathMax(Frac(1, 10), MathMin(Q(5), newScale))]

\* (mutant) the scale branch adding a hundredth per pixel the pointer moved
\* away from the pivot
MouseScaleUpdatePerPixel(ref, rect, currentX, currentY) ==
    LET mouseRelX == RSub(currentX, rect.left)
        mouseRelY == RSub(currentY, rect.top)
        currentDist == MathHypot(RSub(mouseRelX, ref.centerX),
                                 RSub(mouseRelY, ref.centerY))
        newScale == RAdd(ref.initialTransform.scale,
                         RDiv(RSub(currentDist, ref.initialDistance), Q(100)))
    IN  [scale |-> MathMax(Frac(1, 10), MathMin(Q(5), newScale))]

\* (mutant) the scale branch dividing by the initial distance as it is
MouseScaleUpdateUnguarded(ref, rect, currentX, currentY) ==
    LET mouseRelX == RSub(currentX, rect.left)
        mouseRelY == RSub(currentY, rect.top)
        currentDist == MathHypot(RSub(mouseRelX, ref.centerX),
                                 RSub(mouseRelY, ref.centerY))
        newScale == RMul(ref.initialTransform.scale,
                         RDiv(currentDist, ref.initialDistance))
    IN  [scale |-> MathMax(Frac(1, 10), MathMin(Q(5), newScale))]

\* the scale branch of handleMouseMove
MouseScaleUpdate(ref, rect, currentX, currentY) ==
    LET mouseRelX == RSub(currentX, rect.left)
        mouseRelY == RSub(currentY, rect.top)
        currentDist == MathHypot(RSub(mouseRelX, ref.centerX),
                                 RSub(mouseRelY, ref.centerY))
        \* initialDistance || 1: 0 and NaN are falsy
        safeInitialDist ==
            IF ref.initialDistance = Q(0) \/ IsNaN(ref.initialDistance)
            THEN Q(1) ELSE ref.initialDistance
        scaleRatio == RDiv(currentDist, safeInitialDist)
        newScale == RMul(ref.initialTransform.scale, scaleRatio)
    IN  [scale |-> MathMax(Frac(1, 10), MathMin(Q(5), newScale))]

\* (mutant) the rotate branch normalising the remainder to [0, 360)
MouseRotateUpdateNormalised(ref, rect, currentX, currentY) ==
    LET mouseRelX == RSub(currentX, rect.left)
        mouseRelY == RSub(currentY, rect.top)
        currentAngle == MathAtan2(RSub(mouseRelY, ref.centerY),
                                  RSub(mouseRelX, ref.centerX))
        angleDiffDeg == RadToDeg(RSub(currentAngle, ref.initialAngle))
        r == JSRem(RAdd(ref.initialTransform.rotation, angleDiffDeg), Q(360))
    IN  [rotation |-> JSRem(RAdd(r, Q(360)), Q(360))]

\* (mutant) the rotate branch storing the sum without the remainder
MouseRotateUpdateUnwrapped(ref, rect, currentX, currentY) ==
    LET mouseRelX == RSub(currentX, rect.left)
        mouseRelY == RSub(currentY, rect.top)
        currentAngle == MathAtan2(RSub(mouseRelY, ref.centerY),
                                  RSub(mouseRelX, ref.centerX))
        angleDiffDeg == RadToDeg(RSub(currentAngle, ref.initialAngle))
    IN  [rotation |-> RAdd(ref.initialTransform.rotation, angleDiffDeg)]

\* the rotate branch of handleMouseMove
MouseRotateUpdate(ref, rect, currentX, currentY) ==
    LET mouseRelX == RSub(currentX, rect.left)
        mouseRelY == RSub(currentY, rect.top)
        currentAngle == MathAtan2(RSub(mouseRelY, ref.centerY),
                                  RSub(mouseRelX, ref.centerX))
        angleDiffRad == RSub(currentAngle, ref.initialAngle)
        angleDiffDeg == RadToDeg(angleDiffRad)
    IN  [rotation |->
            JSRem(RAdd(ref.initialTransform.rotation, angleDiffDeg), Q(360))]

\* the move branch of handleTouchMove
TouchMoveUpdate(ref, rect, currentX, currentY) ==
    LET deltaX == RSub(currentX, ref.startX)
        deltaY == RSub(currentY, ref.startY)
        percentDeltaX == RMul(RDiv(deltaX, rect.width), Q(100))
        percentDeltaY == RMul(RDiv(deltaY, rect.height), Q(100))
    IN  [x |-> MathMax(Q(0), MathMin(Q(100),
                  RAdd(ref.initialTransform.x, percentDeltaX))),
         y |-> MathMax(Q(0), MathMin(Q(100),
                  RAdd(ref.initialTransform.y, percentDeltaY)))]

\* the scale branch of handleTouchMove
TouchScaleUpdate(ref, rect, currentX, currentY) ==
    LET mouseRelX == RSub(currentX, rect.left)
        mouseRelY == RSub(currentY, rect.top)
        currentDist == MathHypot(RSub(mouseRelX, ref.centerX),
                                 RSub(mouseRelY, ref.centerY))
        safeInitialDist ==
            IF ref.initialDistance = Q(0) \/ IsNaN(ref.initialDistance)
            THEN Q(1) ELSE ref.initialDistance
        scaleRatio == RDiv(currentDist, safeInitialDist)
        newScale == RMul(ref.initialTransform.scale, scaleRatio)
    IN  [scale |-> MathMax(Frac(1, 10), MathMin(Q(5), newScale))]

\* the rotate branch of handleTouchMove
TouchRotateUpdate(ref, rect, currentX, currentY) ==
    LET mouseRelX == RSub(currentX, rect.left)
        mouseRelY == RSub(currentY, rect.top)
        currentAngle == MathAtan2(RSub(mouseRelY, ref.centerY),
                                  RSub(mouseRelX, ref.centerX))
        angleDiffRad == RSub(currentAngle, ref.initialAngle)
        angleDiffDeg == RadToDeg(angleDiffRad)
    IN  [rotation |->
            JSRem(RAdd(ref.initialTransform.rotation, angleDiffDeg), Q(360))]

-----------------------------------------------------------------------------
(* TextureEditor: the styles of the element layers                         *)

\* the image layer: left / top / width in percent of the container, the
\* rotation in degrees; the img inside is w-full h-auto
ImageLayerStyle(view) ==
    [left   |-> view.image.transform.x,
     top    |-> view.image.transform.y,
     rotate |-> view.image.transform.rotation,
     width  |-> RMul(Q(40), view.image.transform.scale)]

\* the text layer: left / top in percent of the container, rotate(..deg)
\* scale(..) on the layer and the font size of the span in pixels
TextLayerStyle(view) ==
    [left     |-> view.text.transform.x,
     top      |-> view.text.transform.y,
     rotate   |-> view.text.transform.rotation,
     scale    |-> view.text.transform.scale,
     fontSize |-> RMul(view.text.fontSize, Q(2))]

\* the rendered width of the image in pixels, in a container of the given width
RenderedImageWidth(view, containerWidth) ==
    RMul(RDiv(ImageLayerStyle(view).width, Q(100)), containerWidth)

\* the rendered font size in pixels: the span's font size under the layer's scale
RenderedFontSize(view) ==
    RMul(TextLayerStyle(view).fontSize, TextLayerStyle(view).scale)

-----------------------------------------------------------------------------
(* canvasService: the 2D context the compositor draws on                   *)
(*                                                                         *)
(* The context holds the clip as the list of clipped paths (the region is  *)
(* their intersection; the empty list is the whole canvas), the current    *)
(* transformation as the list of translate / rotate calls applied to it,   *)
(* the stack of saved states, and the list of draw calls made, each with   *)
(* the clip, transformation and styles in force when it was made.          *)

\* const size = 2048
size == 2048

NewContext ==
    [clip |-> <<>>, tf |-> <<>>, stack |-> <<>>, path |-> <<>>,
     fillStyle |-> "#000000", font |-> "10px sans-serif",
     textAlign |-> "start", textBaseline |-> "alphabetic", ops |-> <<>>]

CtxSave(ctx) ==
    [ctx EXCEPT !.stack = Append(@,
        [clip |-> ctx.clip, tf |-> ctx.tf, fillStyle |-> ctx.fillStyle,
         font |-> ctx.font, textAlign |-> ctx.textAlign,
         textBaseline |-> ctx.textBaseline])]

CtxRestore(ctx) ==
    IF ctx.stack = <<>> THEN ctx
    ELSE LET top == ctx.stack[Len(ctx.stack)]
         IN  [ctx EXCEPT !.stack = SubSeq(@, 1, Len(@) - 1),
                         !.clip = top.clip, !.tf = top.tf,
                         !.fillStyle = top.fillStyle, !.font = top.font,
                         !.textAlign = top.textAlign,
                         !.textBaseline = top.textBaseline]

CtxBeginPath(ctx) == [ctx EXCEPT !.path = <<>>]

CtxRect(ctx, x, y, w, h) ==
    [ctx EXCEPT !.path = Append(@,
        [x |-> x, y |-> y, w |-> w, h |-> h, tf |-> ctx.tf])]

CtxClip(ctx) == [ctx EXCEPT !.clip = Append(@, ctx.path)]

CtxTranslate(ctx, x, y) ==
    [ctx EXCEPT !.tf = Append(@, [op |-> "translate", x |-> x, y |-> y])]

\* the angle in radians, as a coefficient of pi
CtxRotate(ctx, angle) ==
    [ctx EXCEPT !.tf = Append(@, [op |-> "rotate", angle |-> angle])]

\* a draw call; what is the image source or the text, natural the natural
\* size of the image, and call tells which drawView call of generateTexture
\* made it (0: generateTexture itself)
NoSize == [width |-> Q(0), height |-> Q(0)]

DrawCall(ctx, op, what, natural, x, y, w, h, call) ==
    [ctx EXCEPT !.ops = Append(@,
        [op |-> op, what |-> what, natural |-> natural,
         x |-> x, y |-> y, w |-> w, h |-> h,
         clip |-> ctx.clip, tf |-> ctx.tf, fillStyle |-> ctx.fillStyle,
         font |-> ctx.font, textAlign |-> ctx.textAlign,
         textBaseline |-> ctx.textBaseline, call |-> call])]

CtxFillRect(ctx, x, y, w, h, call) ==
    DrawCall(ctx, "fillRect", "", NoSize, x, y, w, h, call)

CtxDrawImage(ctx, img, dx, dy, dw, dh, call) ==
    DrawCall(ctx, "drawImage", img.src,
             [width |-> img.width, height |-> img.height], dx, dy, dw, dh, call)

CtxFillText(ctx, text, x, y, call) ==
    DrawCall(ctx, "fillText", text, NoSize, x, y, Q(0), Q(0), call)

-----------------------------------------------------------------------------
(* canvasService: generateTexture and drawView                             *)

\* drawView up to the image: save the state and clip to the view's area
DrawViewClip(ctx, offsetX, offsetY, width, height) ==
    CtxClip(CtxRect(CtxBeginPath(CtxSave(ctx)), offsetX, offsetY, width, height))

\* (mutant) drawView with a base width of 40% of the view width
DrawViewImageEditorWidth(ctx, view, img, offsetX, offsetY, width, height, call) ==
    LET t == view.image.transform
        baseWidth == RMul(width, Frac(2, 5))
        drawWidth == RMul(baseWidth, t.scale)
        drawHeight == RMul(RDiv(baseWidth, RDiv(img.width, img.height)), t.scale)
        c1 == CtxTranslate(CtxSave(ctx),
                  RAdd(offsetX, RMul(RDiv(t.x, Q(100)), width)),
                  RAdd(offsetY, RMul(RDiv(t.y, Q(100)), height)))
        c2 == CtxRotate(c1, DegToRad(t.rotation))
    IN  CtxRestore(CtxDrawImage(c2, img, RDiv(RNeg(drawWidth), Q(2)),
                       RDiv(RNeg(drawHeight), Q(2)), drawWidth, drawHeight, call))

\* drawView: the image, once loadImage has resolved with img
DrawViewImage(ctx, view, img, offsetX, offsetY, width, height, call) ==
    LET t == view.image.transform
        aspectRatio == RDiv(img.width, img.height)
        baseWidth == RMul(width, Frac(1, 2))
        baseHeight == RDiv(baseWidth, aspectRatio)
        drawWidth == RMul(baseWidth, t.scale)
        drawHeight == RMul(baseHeight, t.scale)
        posX == RAdd(offsetX, RMul(RDiv(t.x, Q(100)), width))
        posY == RAdd(offsetY, RMul(RDiv(t.y, Q(100)), height))
        c1 == CtxSave(ctx)
        c2 == CtxTranslate(c1, posX, posY)
        \* (rotation * Math.PI) / 180
        c3 == CtxRotate(c2, DegToRad(t.rotation))
        c4 == CtxDrawImage(c3, img, RDiv(RNeg(drawWidth), Q(2)),
                           RDiv(RNeg(drawHeight), Q(2)), drawWidth, drawHeight,
                           call)
    IN  CtxRestore(c4)

\* (mutant) drawView placing the text by the view width on both axes
DrawViewTextWidthOnly(ctx, view, offsetX, offsetY, width, height, call) ==
    IF ~HasText(view) THEN ctx
    ELSE LET t == view.text.transform
             c1 == CtxTranslate(CtxSave(ctx),
                       RAdd(offsetX, RMul(RDiv(t.x, Q(100)), width)),
                       RAdd(offsetY, RMul(RDiv(t.y, Q(100)), width)))
             c2 == CtxRotate(c1, DegToRad(t.rotation))
             c3 == [c2 EXCEPT
                       !.font = [weight |-> "bold",
                                 px |-> RMul(RMul(view.text.fontSize,
                                             RDiv(width, Q(100))), t.scale),
                                 family |-> view.text.fontFamily],
                       !.fillStyle = view.text.color,
                       !.textAlign = "center", !.textBaseline = "middle"]
         IN  CtxRestore(CtxFillText(c3, view.text.content, Q(0), Q(0), call))

\* drawView: the text
DrawViewText(ctx, view, offsetX, offsetY, width, height, call) ==
    IF ~HasText(view) THEN ctx
    ELSE LET t == view.text.transform
             posX == RAdd(offsetX, RMul(RDiv(t.x, Q(100)), width))
             posY == RAdd(offsetY, RMul(RDiv(t.y, Q(100)), height))
             actualFontSize ==
                 RMul(RMul(view.text.fontSize, RDiv(width, Q(100))), t.scale)
             c1 == CtxSave(ctx)
             c2 == CtxTranslate(c1, posX, posY)
             c3 == CtxRotate(c2, DegToRad(t.rotation))
             c4 == [c3 EXCEPT
                       !.font = [weight |-> "bold", px |-> actualFontSize,
                                 family |-> view.text.fontFamily],
                       !.fillStyle = view.text.color,
                       !.textAlign = "center",
                       !.textBaseline = "middle"]
             c5 == CtxFillText(c4, view.text.content, Q(0), Q(0), call)
         IN  CtxRestore(c5)

\* (mutant) drawView returning without restoring the clip
DrawViewEndNoRestore(ctx) == ctx

\* drawView: ctx.restore() of the clip
DrawViewEnd(ctx) == CtxRestore(ctx)

\* the area generateTexture gives its first and its second drawView call
ViewArea(call) ==
    IF call = 1
    THEN [offsetX |-> Q(0), offsetY |-> Q(0),
          width |-> Q(size \div 2), height |-> Q(size)]
    ELSE [offsetX |-> Q(size \div 2), offsetY |-> Q(0),
          width |-> Q(size \div 2), height |-> Q(size)]

\* (mutant) drawView reading the view from the App's current configuration
ViewOfLive(cfg, call) == IF call = 1 THEN config.front ELSE config.back

ViewOf(cfg, call) == IF call = 1 THEN cfg.front ELSE cfg.back

\* a generateTexture call and the caller awaiting it: pc is the position,
\* purpose the caller ("download": handleDownload, "update":
\* triggerTextureUpdate); loadFailed and overlapped are history
IdleJob ==
    [pc |-> "idle", cfg |-> INITIAL_STATE, ctx |-> NewContext,
     purpose |-> "none", loadFailed |-> {}, overlapped |-> {}]

\* the rest of the drawView call after its image part, and what follows it
\* in generateTexture, up to the next loadImage or to the data URL
RECURSIVE AfterImage(_, _)
AfterImage(job, call) ==
    LET a == ViewArea(call)
        c1 == DrawViewText(job.ctx, ViewOf(job.cfg, call), a.offsetX,
                           a.offsetY, a.width, a.height, call)
        c2 == DrawViewEnd(c1)
    IN  IF call = 1
        THEN LET b == ViewArea(2)
                 c3 == DrawViewClip(c2, b.offsetX, b.offsetY, b.width, b.height)
             IN  IF HasImage(job.cfg.back)
                 THEN [job EXCEPT !.ctx = c3, !.pc = "backImage"]
                 ELSE AfterImage([job EXCEPT !.ctx = c3], 2)
        ELSE [job EXCEPT !.ctx = c2, !.pc = "done"]

\* (mutant) generateTexture draws on one canvas kept by the module, as the
\* latest finished call left it, instead of creating a canvas
GenerateTextureSharedCanvas(cfg, hasContext) ==
    IF ~hasContext
    THEN [IdleJob EXCEPT !.pc = "failed", !.cfg = cfg]
    ELSE LET finished == {i \in DOMAIN jobs : jobs[i].pc = "done"}
             canvas == IF finished = {} THEN NewContext
                       ELSE jobs[CHOOSE i \in finished :
                                     \A k \in finished : k <= i].ctx
             c1 == [canvas EXCEPT !.fillStyle = cfg.baseColor]
             c2 == CtxFillRect(c1, Q(0), Q(0), Q(size), Q(size), 0)
             a  == ViewArea(1)
             c3 == DrawViewClip(c2, a.offsetX, a.offsetY, a.width, a.height)
             job == [IdleJob EXCEPT !.cfg = cfg, !.ctx = c3]
         IN  IF HasImage(cfg.front)
             THEN [job EXCEPT !.pc = "frontImage"]
             ELSE AfterImage(job, 1)

\* generateTexture(cfg) up to its first loadImage; hasContext tells whether
\* canvas.getContext('2d') returned a context
GenerateTexture(cfg, hasContext) ==
    IF ~hasContext
    THEN [IdleJob EXCEPT !.pc = "failed", !.cfg = cfg]
    ELSE LET c1 == [NewContext EXCEPT !.fillStyle = cfg.baseColor]
             c2 == CtxFillRect(c1, Q(0), Q(0), Q(size), Q(size), 0)
             a  == ViewArea(1)
             c3 == DrawViewClip(c2, a.offsetX, a.offsetY, a.width, a.height)
             job == [IdleJob EXCEPT !.cfg = cfg, !.ctx = c3]
         IN  IF HasImage(cfg.front)
             THEN [job EXCEPT !.pc = "frontImage"]
             ELSE AfterImage(job, 1)

WaitingCall(job) ==
    IF job.pc = "frontImage" THEN 1 ELSE 2

\* (mutant) a rejected loadImage ends generateTexture
ImageRejectedThrows(job) ==
    [job EXCEPT !.pc = "failed", !.loadFailed = @ \cup {WaitingCall(job)}]

\* loadImage rejected (img.onerror): the catch logs and drawView goes on
ImageRejected(job) ==
    AfterImage([job EXCEPT !.loadFailed = @ \cup {WaitingCall(job)}],
               WaitingCall(job))

\* loadImage resolved (img.onload) with the decoded image
ImageResolved(job, img) ==
    LET call == WaitingCall(job)
        a == ViewArea(call)
    IN  AfterImage([job EXCEPT
                       !.ctx = DrawViewImage(job.ctx, ViewOf(job.cfg, call),
                                   img, a.offsetX, a.offsetY, a.width,
                                   a.height, call)],
                   call)

-----------------------------------------------------------------------------
(* SketchfabService                                                        *)

NoService == [current |-> FALSE, api |-> FALSE, tShirtMaterialName |-> "null"]

\* new SketchfabService('api-frame')
NewService == [current |-> TRUE, api |-> FALSE, tShirtMaterialName |-> "null"]

\* if (attempts > 20): the polling limit of initialize
MaxAttempts == 20

Material(name, hasChannel) == [name |-> name, hasChannel |-> hasChannel]

\* the lists of materials the viewer can answer getMaterialList with, one
\* of them of a material whose name is the empty string;
\* hasChannel tells whether the material has one of the channels AlbedoPBR,
\* DiffusePBR, DiffuseColor
MaterialLists ==
    { <<>>,
      << Material("cloth", TRUE) >>,
      << Material("", TRUE) >>,
      << Material("cloth", FALSE), Material("t_shirt", TRUE) >> }

\* the arguments (err, materials) of a getMaterialList callback
MaterialReplies ==
    { [err |-> TRUE, materials |-> <<>>] }
        \cup { [err |-> FALSE, materials |-> m] : m \in MaterialLists }

\* the names that contain one of the keywords of findTShirtMaterial
KeywordNames == {"t_shirt"}

\* materials.find(m => keywords.some(k => lowerName.includes(k))) || materials[0]
FindTarget(materials) ==
    LET hits == {k \in 1..Len(materials) : materials[k].name \in KeywordNames}
    IN  IF hits # {}
        THEN materials[CHOOSE k \in hits : \A k2 \in hits : k <= k2].name
        ELSE IF Len(materials) > 0 THEN materials[1].name
        ELSE "null"

\* materials.find(m => m.name === this.tShirtMaterialName)
FindNamed(materials, name) ==
    {k \in 1..Len(materials) : materials[k].name = name}

\* triggerTextureUpdate has returned through its try (updateTexture
\* resolved): nothing refers to the canvas and the snapshot any more
Settled(job) == [IdleJob EXCEPT !.pc = "settled", !.purpose = job.purpose]

\* triggerTextureUpdate has returned through its catch: generateTexture threw
\* or updateTexture rejected
Caught(job) == [IdleJob EXCEPT !.pc = "caught", !.purpose = job.purpose]

\* the finally of triggerTextureUpdate has run
Returned(job) == job.pc \in {"settled", "caught"}

\* !this.tShirtMaterialName: null or the empty string
NoMaterialName(svc) == svc.tShirtMaterialName \in {"null", ""}

\* performTextureUpdate up to api.addTexture; its first line returns without
\* settling the promise
PerformTextureUpdate(job, svc) ==
    IF ~svc.api \/ NoMaterialName(svc)
    THEN [job EXCEPT !.pc = "pending"]
    ELSE [job EXCEPT !.pc = "addTexture"]

\* updateTexture up to its first viewer call
UpdateTexture(job, svc) ==
    IF ~svc.api THEN Settled(job)
    ELSE IF NoMaterialName(svc)
         THEN [job EXCEPT !.pc = "findMaterial"]
         ELSE PerformTextureUpdate(job, svc)

-----------------------------------------------------------------------------
(* App: triggerTextureUpdate and the effects                               *)

\* what follows `await generateTexture(config)` in its caller:
\* triggerTextureUpdate goes on to updateTexture, or to its catch when
\* generateTexture threw; handleDownload offers the file
AfterGenerate(job, svc) ==
    IF job.purpose # "update" \/ job.pc \in {"frontImage", "backImage"}
    THEN job
    ELSE IF job.pc = "failed" THEN Caught(job)
    ELSE UpdateTexture(job, svc)

\* the texture-update effect, run when config, isLoading or session changed:
\* the earlier timer is cleared and a new one set unless loading or signed out
NoTimer == [pending |-> FALSE, cfg |-> INITIAL_STATE]

DebounceEffect(cfg, loading, sess) ==
    IF loading \/ sess = "null" THEN NoTimer
    ELSE [pending |-> TRUE, cfg |-> cfg]

\* the viewer-initialisation effect, run when session changed
InitEffect(cfg, sess) ==
    IF sess = "null"
    THEN [pc |-> "none", attempts |-> 0, cfg |-> INITIAL_STATE]
    ELSE [pc |-> "timer", attempts |-> 0, cfg |-> cfg]

-----------------------------------------------------------------------------
(* Bounds and inputs of the compositor and the App                         *)

\* bound on the generateTexture calls of one behaviour
MaxJobs == 3

\* bound on the downloads among them
MaxDownloads == 2

\* bound on the base colour changes of one behaviour
MaxEdits == 1

JobIds == 1..MaxJobs

\* the image sources of the configurations the compositor is run on
CompSrcs == {"imgA", "imgB"}

\* the decoded image of a source: new Image() with its natural size
Decoded(src) ==
    IF src = "imgA" THEN [src |-> src, width |-> Q(400), height |-> Q(200)]
    ELSE [src |-> src, width |-> Q(150), height |-> Q(600)]

\* the base colours chosen in the panel
Colours == {"#ffffff", "#dc2626"}

\* transforms within the bounds the editor keeps
CompTransforms ==
    { Transform(Q(100), Q(25), Q(5), Q(90)),
      Transform(Q(0), Q(100), Frac(1, 10), Q(-45)) }

CompTextTransforms ==
    { Transform(Q(50), Q(30), Q(1), Q(0)),
      Transform(Q(100), Q(0), Q(2), Q(315)) }

\* the views a side can hold: a side without an image or without a text
\* has the default transform for it
CompViews ==
    { [text |-> t, image |-> i] :
        t \in {DEFAULT_VIEW_STATE.text}
                 \cup { [DEFAULT_VIEW_STATE.text EXCEPT
                             !.content = "ZHEIDE", !.transform = tt] :
                          tt \in CompTextTransforms },
        i \in {DEFAULT_VIEW_STATE.image}
                 \cup { [src |-> src, transform |-> ti] :
                          src \in CompSrcs, ti \in CompTransforms } }

InitJobs == jobs = [j \in JobIds |-> IdleJob]

\* no handleLogout call has been made
LogoutInit ==
    [pc |-> "idle", user |-> "none", log |-> "none", calls |-> 0,
     signOuts |-> 0]

\* the App as constructed: useState / useRef initial values, no effect run
InitApp ==
    /\ session = "null"
    /\ authLoading = TRUE
    /\ isLoading = TRUE
    /\ isUpdatingTexture = FALSE
    /\ error = FALSE
    /\ service = NoService
    /\ init = InitEffect(INITIAL_STATE, "null")
    /\ debounce = DebounceEffect(INITIAL_STATE, TRUE, "null")
    /\ viewer = [applied |-> <<>>]
    /\ edits = 0
    /\ logout = LogoutInit

\* the App once getSession has resolved with a session: the editor and the
\* panel are shown and the viewer-initialisation timer is set
InitSignedIn ==
    /\ session = "user"
    /\ authLoading = FALSE
    /\ isLoading = TRUE
    /\ isUpdatingTexture = FALSE
    /\ error = FALSE
    /\ service = NoService
    /\ init = InitEffect(config, "user")
    /\ debounce = DebounceEffect(config, TRUE, "user")
    /\ viewer = [applied |-> <<>>]
    /\ edits = 0
    /\ logout = LogoutInit

-----------------------------------------------------------------------------
(* Inputs of the gesture controller                                        *)

\* bound on the pointer-move updates of one behaviour
MaxMoves == 1

\* bound on the FileReader loads in flight
MaxUploads == 1

\* the bounding boxes the editing container can have
Rects ==
    { [left |-> Q(20), top |-> Q(10), width |-> Q(300), height |-> Q(300)],
      [left |-> Q(8),  top |-> Q(64), width |-> Q(600), height |-> Q(400)] }

\* pointer positions relative to the element's centre, in pixels.
\* For a move: on the centre and beside it.  For a scale: on the centre,
\* closer than a pixel, a pixel away, further, far outside the container.
\* For a rotate: right of, below, left of and above the centre.
CentreOffsets(kind) ==
    CASE kind = "move" ->
            { <<Q(3), Q(-4)>> }
      [] kind = "scale" ->
            { <<Q(0), Q(0)>>, <<Frac(1, 2), Q(0)>>, <<Q(1), Q(0)>>,
              <<Q(0), Q(40)>>, <<Q(-4000), Q(0)>> }
      [] OTHER ->
            { <<Q(40), Q(0)>>, <<Q(0), Q(40)>>, <<Q(0), Q(-80)>> }

\* pointer displacements of a move gesture, in pixels
MoveDeltas ==
    { <<Q(0), Q(0)>>, <<Q(75), Q(-30)>>, <<Q(4000), Q(4000)>>,
      <<Q(-4000), Q(-4000)>> }

\* the pointer positions (clientX, clientY) at an offset from the point that
\* is cx, cy pixels inside the container
PointersAround(kind, rect, cx, cy) ==
    { <<RAdd(RAdd(rect.left, cx), o[1]), RAdd(RAdd(rect.top, cy), o[2])>> :
        o \in CentreOffsets(kind) }

PointersFrom(sx, sy) ==
    { <<RAdd(sx, d[1]), RAdd(sy, d[2])>> : d \in MoveDeltas }

\* where a gesture on the element can start
BeginPointers(kind, transform, rect) ==
    PointersAround(kind, rect, RMul(RDiv(transform.x, Q(100)), rect.width),
                   RMul(RDiv(transform.y, Q(100)), rect.height))

\* where the pointer can be at a pointer-move of the running gesture
MovePointers(kind, ref, rect) ==
    IF kind = "move" THEN PointersFrom(ref.startX, ref.startY)
    ELSE PointersAround(kind, rect, ref.centerX, ref.centerY)

-----------------------------------------------------------------------------
(* TextureEditor: handlers                                                 *)

\* the window listeners are re-registered, with the closures of the latest
\* render, when isDragging, interactionType or activeElement changes
ListenerSide(newElem, newDrag, newKind) ==
    IF <<newElem, newDrag, newKind>> # <<activeElement, isDragging, interactionType>>
    THEN activeSide ELSE effectSide

Began(transform, x, y, rect, type, kind, side) ==
    [transform |-> transform, x |-> x, y |-> y, rect |-> rect,
     type |-> type, kind |-> kind, side |-> side]

\* the pointer position of the applied pointer-move before the last one
NoEarlierMove == [moved |-> FALSE, x |-> Q(0), y |-> Q(0)]

\* hist after a pointer-move handler ran on pointer position (x, y)
Event(op, x, y, applied) ==
    [hist EXCEPT !.op = op, !.x = x, !.y = y, !.applied = applied,
                 !.was = IF applied /\ hist.applied
                         THEN [moved |-> TRUE, x |-> hist.x, y |-> hist.y]
                         ELSE NoEarlierMove]

\* hist after any other handler ran
Other == Event("other", Q(0), Q(0), FALSE)

\* the element's layer is rendered, and its scale and rotate handles only
\* while it is selected
CanBegin(type, interaction) ==
    /\ moves < MaxMoves
    /\ Present(config[activeSide], type)
    /\ (interaction = "move" \/ activeElement = type)

\* (mutant) the begin handlers returning when a drag is already running
BeginInteractionKeepFirst(type, interaction, clientX, clientY) ==
    IF ~containerMounted \/ isDragging
    THEN /\ hist' = Event("beginDropped", Q(0), Q(0), FALSE)
         /\ UNCHANGED <<config, activeSide, activeElement, isDragging,
                        interactionType, dragRef, effectSide, containerRect,
                        containerMounted, uploads, moves>>
    ELSE LET transform == config[activeSide][type].transform
         IN  /\ activeElement' = type
             /\ isDragging' = TRUE
             /\ interactionType' = interaction
             /\ dragRef' = DragSnapshot(transform, clientX, clientY, containerRect)
             /\ effectSide' = ListenerSide(type, TRUE, interaction)
             /\ hist' = [Other EXCEPT
                            !.begin = Began(transform, clientX, clientY,
                                            containerRect, type, interaction,
                                            activeSide),
                            !.again = isDragging]
             /\ UNCHANGED <<config, activeSide, containerRect,
                            containerMounted, uploads, moves>>

\* (mutant) the begin handlers setting the selection and the drag state
\* before they look at the container ref
BeginInteractionBeforeGuard(type, interaction, clientX, clientY) ==
    IF ~containerMounted
    THEN /\ activeElement' = type
         /\ isDragging' = TRUE
         /\ interactionType' = interaction
         /\ effectSide' = ListenerSide(type, TRUE, interaction)
         /\ hist' = Event("beginDropped", Q(0), Q(0), FALSE)
         /\ UNCHANGED <<config, activeSide, dragRef, containerRect,
                        containerMounted, uploads, moves>>
    ELSE LET transform == config[activeSide][type].transform
         IN  /\ activeElement' = type
             /\ isDragging' = TRUE
             /\ interactionType' = interaction
             /\ dragRef' = DragSnapshot(transform, clientX, clientY, containerRect)
             /\ effectSide' = ListenerSide(type, TRUE, interaction)
             /\ hist' = [Other EXCEPT
                            !.begin = Began(transform, clientX, clientY,
                                            containerRect, type, interaction,
                                            activeSide),
                            !.again = isDragging]
             /\ UNCHANGED <<config, activeSide, containerRect,
                            containerMounted, uploads, moves>>

BeginInteraction(type, interaction, clientX, clientY) ==
    IF ~containerMounted
    THEN /\ hist' = Event("beginDropped", Q(0), Q(0), FALSE)
         /\ UNCHANGED <<config, activeSide, activeElement, isDragging,
                        interactionType, dragRef, effectSide, containerRect,
                        containerMounted, uploads, moves>>
    ELSE LET transform == config[activeSide][type].transform
         IN  /\ activeElement' = type
             /\ isDragging' = TRUE
             /\ interactionType' = interaction
             /\ dragRef' = DragSnapshot(transform, clientX, clientY, containerRect)
             /\ effectSide' = ListenerSide(type, TRUE, interaction)
             /\ hist' = [Other EXCEPT
                            !.begin = Began(transform, clientX, clientY,
                                            containerRect, type, interaction,
                                            activeSide),
                            !.again = isDragging]
             /\ UNCHANGED <<config, activeSide, containerRect,
                            containerMounted, uploads, moves>>

handleMouseDown ==
    \E type \in Elems, interaction \in Kinds :
        /\ CanBegin(type, interaction)
        /\ \E p \in BeginPointers(interaction,
                       config[activeSide][type].transform, containerRect) :
               BeginInteraction(type, interaction, p[1], p[2])

handleTouchStart ==
    \E type \in Elems, interaction \in Kinds :
        /\ CanBegin(type, interaction)
        /\ \E p \in BeginPointers(interaction,
                       config[activeSide][type].transform, containerRect) :
               BeginInteraction(type, interaction, p[1], p[2])

\* (mutant) the deleted element is replaced by the default element
handleDeleteToDefault ==
    \E type \in Elems :
        /\ Present(config[activeSide], type)
        /\ activeElement = type
        /\ config' = updateActiveSide(config, activeSide,
               IF type = "image"
               THEN [config[activeSide] EXCEPT !.image = DEFAULT_VIEW_STATE.image]
               ELSE [config[activeSide] EXCEPT !.text = DEFAULT_VIEW_STATE.text])
        /\ activeElement' = "none"
        /\ effectSide' = ListenerSide("none", isDragging, interactionType)
        /\ hist' = Other
        /\ UNCHANGED <<activeSide, isDragging, interactionType, dragRef,
                       containerRect, containerMounted, uploads, moves>>

\* handleDelete(e, type), from the delete handle of the selected element
handleDelete ==
    \E type \in Elems :
        /\ Present(config[activeSide], type)
        /\ activeElement = type
        /\ config' = updateActiveSide(config, activeSide,
               IF type = "image"
               THEN [config[activeSide] EXCEPT !.image.src = NoSrc]
               ELSE [config[activeSide] EXCEPT !.text.content = ""])
        /\ activeElement' = "none"
        /\ effectSide' = ListenerSide("none", isDragging, interactionType)
        /\ hist' = Other
        /\ UNCHANGED <<activeSide, isDragging, interactionType, dragRef,
                       containerRect, containerMounted, uploads, moves>>

\* the guard of both move handlers
MoveGuard ==
    isDragging /\ activeElement # "none" /\ interactionType # "none"
        /\ containerMounted

ApplyMove(op, updates, x, y) ==
    /\ config' = updateActiveSide(config, effectSide,
           updateTransform(config[effectSide], activeElement, updates))
    /\ moves' = moves + 1
    /\ hist' = [Event(op, x, y, TRUE) EXCEPT !.rect = containerRect]
    /\ UNCHANGED <<activeSide, activeElement, isDragging, interactionType,
                   dragRef, effectSide, containerRect, containerMounted, uploads>>

IgnoreMove(op, x, y) ==
    /\ hist' = Event(op, x, y, FALSE)
    /\ UNCHANGED <<config, activeSide, activeElement, isDragging,
                   interactionType, dragRef, effectSide, containerRect,
                   containerMounted, uploads, moves>>

\* the pointer positions on which the branch of the gesture can be evaluated
Computable(kind, ref, rect, x, y) ==
    LET rx == RSub(RSub(x, rect.left), ref.centerX)
        ry == RSub(RSub(y, rect.top), ref.centerY)
    IN  CASE kind = "scale"  -> HypotExact(rx, ry)
          [] kind = "rotate" -> AngleExact(ry, rx)
          [] OTHER           -> TRUE

\* (mutant) the mousemove listener on the window from the mount on, its
\* guard not asking for isDragging or an interaction type
handleMouseMoveAlways ==
    /\ moves < MaxMoves
    /\ \E p \in MovePointers(interactionType, dragRef, containerRect) :
        /\ Computable(interactionType, dragRef, containerRect, p[1], p[2])
        /\ IF ~(activeElement # "none" /\ containerMounted)
           THEN IgnoreMove("mouseMove", p[1], p[2])
           ELSE ApplyMove("mouseMove",
                    CASE interactionType = "move" ->
                            MouseMoveUpdate(dragRef, containerRect, p[1], p[2])
                      [] interactionType = "scale" ->
                            MouseScaleUpdate(dragRef, containerRect, p[1], p[2])
                      [] OTHER ->
                            MouseRotateUpdate(dragRef, containerRect, p[1], p[2]),
                    p[1], p[2])

\* (mutant) the move branch dividing by the container size read at
\* gesture start
handleMouseMoveCachedRect ==
    /\ isDragging
    /\ moves < MaxMoves
    /\ \E p \in MovePointers(interactionType, dragRef, containerRect) :
        /\ Computable(interactionType, dragRef, containerRect, p[1], p[2])
        /\ IF ~MoveGuard THEN IgnoreMove("mouseMove", p[1], p[2])
           ELSE ApplyMove("mouseMove",
                    CASE interactionType = "move" ->
                            MouseMoveUpdate(dragRef, hist.begin.rect, p[1], p[2])
                      [] interactionType = "scale" ->
                            MouseScaleUpdate(dragRef, containerRect, p[1], p[2])
                      [] OTHER ->
                            MouseRotateUpdate(dragRef, containerRect, p[1], p[2]),
                    p[1], p[2])

\* the listeners are on the window only while isDragging
MouseMoveWithin(bound) ==
    /\ isDragging
    /\ moves < bound
    /\ \E p \in MovePointers(interactionType, dragRef, containerRect) :
        /\ Computable(interactionType, dragRef, containerRect, p[1], p[2])
        /\ IF ~MoveGuard THEN IgnoreMove("mouseMove", p[1], p[2])
           ELSE ApplyMove("mouseMove",
                    CASE interactionType = "move" ->
                            MouseMoveUpdate(dragRef, containerRect, p[1], p[2])
                      [] interactionType = "scale" ->
                            MouseScaleUpdate(dragRef, containerRect, p[1], p[2])
                      [] OTHER ->
                            MouseRotateUpdate(dragRef, containerRect, p[1], p[2]),
                    p[1], p[2])

handleMouseMove == MouseMoveWithin(MaxMoves)

handleTouchMove ==
    /\ isDragging
    /\ moves < MaxMoves
    /\ \E p \in MovePointers(interactionType, dragRef, containerRect) :
        /\ Computable(interactionType, dragRef, containerRect, p[1], p[2])
        /\ IF ~MoveGuard THEN IgnoreMove("touchMove", p[1], p[2])
           ELSE ApplyMove("touchMove",
                    CASE interactionType = "move" ->
                            TouchMoveUpdate(dragRef, containerRect, p[1], p[2])
                      [] interactionType = "scale" ->
                            TouchScaleUpdate(dragRef, containerRect, p[1], p[2])
                      [] OTHER ->
                            TouchRotateUpdate(dragRef, containerRect, p[1], p[2]),
                    p[1], p[2])

\* (mutant) mouseup and touchend listened for on the container: a release
\* with the pointer outside it is not delivered
handleMouseUpOnContainer ==
    /\ isDragging
    /\ hist.op \in {"mouseMove", "touchMove"} =>
           /\ RLe(hist.rect.left, hist.x)
           /\ RLe(hist.x, RAdd(hist.rect.left, hist.rect.width))
           /\ RLe(hist.rect.top, hist.y)
           /\ RLe(hist.y, RAdd(hist.rect.top, hist.rect.height))
    /\ isDragging' = FALSE
    /\ interactionType' = "none"
    /\ effectSide' = ListenerSide(activeElement, FALSE, "none")
    /\ hist' = Other
    /\ UNCHANGED <<config, activeSide, activeElement, dragRef, containerRect,
                   containerMounted, uploads, moves>>

\* mouseup and touchend on the window
\* (mutant) the release also clearing the selection
handleMouseUpDeselecting ==
    /\ isDragging
    /\ isDragging' = FALSE
    /\ interactionType' = "none"
    /\ activeElement' = "none"
    /\ effectSide' = ListenerSide("none", FALSE, "none")
    /\ hist' = Other
    /\ UNCHANGED <<config, activeSide, dragRef, containerRect,
                   containerMounted, uploads, moves>>

handleMouseUp ==
    /\ isDragging
    /\ isDragging' = FALSE
    /\ interactionType' = "none"
    /\ effectSide' = ListenerSide(activeElement, FALSE, "none")
    /\ hist' = Other
    /\ UNCHANGED <<config, activeSide, activeElement, dragRef, containerRect,
                   containerMounted, uploads, moves>>

\* the click layer: onClick={() => setActiveElement(null)}
deselect ==
    /\ activeElement # "none"
    /\ activeElement' = "none"
    /\ effectSide' = ListenerSide("none", isDragging, interactionType)
    /\ hist' = Other
    /\ UNCHANGED <<config, activeSide, isDragging, interactionType, dragRef,
                   containerRect, containerMounted, uploads, moves>>

-----------------------------------------------------------------------------
(* ControlPanel: handlers                                                  *)

handleSideChange ==
    \E side \in Sides :
        /\ side # activeSide
        /\ activeSide' = side
        /\ hist' = Other
        /\ UNCHANGED <<config, activeElement, isDragging, interactionType,
                       dragRef, effectSide, containerRect, containerMounted,
                       uploads, moves>>

\* handleImageUpload: a file was chosen, the FileReader starts reading
handleImageUpload ==
    \E src \in Srcs :
        /\ Cardinality(uploads) < MaxUploads
        /\ [side |-> activeSide, src |-> src] \notin uploads
        /\ uploads' = uploads \cup {[side |-> activeSide, src |-> src]}
        /\ hist' = Other
        /\ UNCHANGED <<config, activeSide, activeElement, isDragging,
                       interactionType, dragRef, effectSide, containerRect,
                       containerMounted, moves>>

\* reader.onload
readerOnLoad ==
    \E u \in uploads :
        /\ uploads' = uploads \ {u}
        /\ config' = updateActiveSide(config, u.side,
               [config[u.side] EXCEPT
                    !.image = UploadedImage(config[u.side].image, u.src)])
        /\ hist' = Event("readerOnLoad", Q(0), Q(0), FALSE)
        /\ UNCHANGED <<activeSide, activeElement, isDragging, interactionType,
                       dragRef, effectSide, containerRect, containerMounted,
                       moves>>

-----------------------------------------------------------------------------
(* The editor: gestures, deletion, side switch and image upload            *)

\* Transforms the front text can have when a gesture starts: the default of
\* INITIAL_STATE and values earlier gestures leave behind (positions on the
\* border and inside, the scale limits, rotations of either sign).
StartTransforms ==
    { Transform(Q(50), Q(30), Q(1), Q(0)),
      Transform(Q(0), Q(100), Q(5), Q(270)),
      Transform(Q(25), Q(80), Frac(1, 10), Q(-90)),
      Transform(Q(100), Q(0), Q(2), Q(315)) }

HistInit(rect) ==
    [op |-> "other", x |-> Q(0), y |-> Q(0), applied |-> FALSE,
     rect |-> rect, again |-> FALSE, was |-> NoEarlierMove,
     begin |-> Began(Transform(Q(0), Q(0), Q(1), Q(0)), Q(0), Q(0), rect,
                     "none", "none", "front")]

InitEditor ==
    /\ \E t \in StartTransforms :
           config = [INITIAL_STATE EXCEPT !.front.text.transform = t]
    /\ activeSide = "front"
    /\ activeElement = "none"
    /\ isDragging = FALSE
    /\ interactionType = "none"
    /\ dragRef = DragRefInit
    /\ effectSide = "front"
    /\ containerRect \in Rects
    /\ containerMounted = TRUE
    /\ uploads = {}
    /\ moves = 0
    /\ hist = HistInit(containerRect)

\* While isDragging the overlay (fixed inset-0 z-50) lies over the element
\* layers, the click layer and the controls, so pointer input reaches only
\* the window listeners; a FileReader can complete at any time.
\* an editor or panel handler with the rest of the App left aside
InEditor(handler) == handler /\ UNCHANGED <<cvars, avars>>

NextGesture ==
    \/ ~isDragging /\ InEditor(handleMouseDown)
    \/ ~isDragging /\ InEditor(handleTouchStart)
    \/ InEditor(handleMouseMove)
    \/ InEditor(handleTouchMove)
    \/ InEditor(handleMouseUp)
    \/ ~isDragging /\ InEditor(handleDelete)
    \/ ~isDragging /\ InEditor(deselect)
    \/ ~isDragging /\ InEditor(handleSideChange)
    \/ ~isDragging /\ InEditor(handleImageUpload)
    \/ InEditor(readerOnLoad)

InitGesture ==
    /\ InitEditor
    /\ InitJobs
    /\ InitSignedIn

SpecGesture == InitGesture /\ [][NextGesture]_vars

\* the pointer that was pressed is released at some time, and the browser
\* delivers the mouseup or touchend to the window listener
SpecGestureFair == SpecGesture /\ WF_vars(InEditor(handleMouseUp))

-----------------------------------------------------------------------------
(* Specification of the pointer handlers: the gesture handlers as React    *)
(* and the window can call them, in a container that the layout resizes    *)
(* and whose ref can be detached                                           *)

\* the layout gives the container another box: the next
\* getBoundingClientRect() returns it
resizeContainer ==
    /\ containerMounted
    /\ \E r \in Rects : r # containerRect /\ containerRect' = r
    /\ hist' = Other
    /\ UNCHANGED <<config, activeSide, activeElement, isDragging,
                   interactionType, dragRef, effectSide, containerMounted,
                   uploads, moves>>

\* React detaches or attaches containerRef.current
setContainerRef ==
    /\ containerMounted' = ~containerMounted
    /\ hist' = Other
    /\ UNCHANGED <<config, activeSide, activeElement, isDragging,
                   interactionType, dragRef, effectSide, containerRect,
                   uploads, moves>>

\* The begin handlers are taken as callable in every state in which their
\* element or handle is rendered, also during a drag; the click layer is
\* under the overlay then.
NextPointer ==
    \/ InEditor(handleMouseDown)
    \/ InEditor(handleTouchStart)
    \/ InEditor(handleMouseMove)
    \/ InEditor(handleTouchMove)
    \/ InEditor(handleMouseUp)
    \/ InEditor(~isDragging /\ deselect)
    \/ InEditor(resizeContainer)
    \/ InEditor(setContainerRef)

SpecPointer == InitGesture /\ [][NextPointer]_vars

-----------------------------------------------------------------------------
(* Specification of one gesture: a mouse gesture of several pointer-moves  *)
(* in a container that stays as it is                                      *)

\* bound on the pointer-moves of the one gesture
MaxPathMoves == 2

NextPath ==
    \/ InEditor(~isDragging /\ handleMouseDown)
    \/ InEditor(MouseMoveWithin(MaxPathMoves))
    \/ InEditor(handleMouseUp)

SpecPath == InitGesture /\ [][NextPath]_vars

-----------------------------------------------------------------------------
(* App and SketchfabService: handlers and callbacks                        *)

FreeJob(j) ==
    /\ jobs[j].pc = "idle"
    /\ \A i \in JobIds : i < j => jobs[i].pc # "idle"

\* the update requests that are waiting for an image to load
Decoding ==
    {i \in JobIds : jobs[i].purpose = "update"
                    /\ jobs[i].pc \in {"frontImage", "backImage"}}

\* (mutant) isUpdatingTexture is cleared at the end of the try, not in a
\* finally
SetJobNoFinally(j, job, starting) ==
    /\ jobs' = [jobs EXCEPT ![j] = job]
    /\ isUpdatingTexture' =
           IF job.purpose = "update" /\ job.pc = "settled" THEN FALSE
           ELSE IF starting /\ job.purpose = "update" THEN TRUE
           ELSE isUpdatingTexture

\* the new position of a call; the finally of triggerTextureUpdate clears
\* isUpdatingTexture when the update settles, its start sets it
SetJob(j, job, starting) ==
    /\ jobs' = [jobs EXCEPT ![j] = job]
    /\ isUpdatingTexture' =
           IF job.purpose = "update" /\ Returned(job) THEN FALSE
           ELSE IF starting /\ job.purpose = "update" THEN TRUE
           ELSE isUpdatingTexture

\* triggerTextureUpdate of the render whose config is cfg
TriggerTextureUpdate(cfg, svc) ==
    IF ~svc.current
    THEN UNCHANGED <<jobs, isUpdatingTexture>>
    ELSE \E j \in JobIds, hasContext \in BOOLEAN :
             /\ FreeJob(j)
             /\ SetJob(j, AfterGenerate(
                    [GenerateTexture(cfg, hasContext) EXCEPT
                         !.purpose = "update", !.overlapped = Decoding],
                    svc), TRUE)

\* supabase.auth.getSession() resolved
getSessionResolved ==
    /\ authLoading
    /\ \E s \in {"null", "user"} :
           /\ session' = s
           /\ init' = InitEffect(config, s)
           /\ debounce' = DebounceEffect(config, isLoading, s)
    /\ authLoading' = FALSE
    /\ UNCHANGED <<gvars, cvars, isLoading, isUpdatingTexture, error, service,
                   viewer, edits, logout>>

\* onAuthStateChange: the user signed in on the AuthPage
signedIn ==
    /\ ~authLoading
    /\ session = "null"
    /\ session' = "user"
    /\ init' = InitEffect(config, "user")
    /\ debounce' = DebounceEffect(config, isLoading, "user")
    /\ UNCHANGED <<gvars, cvars, authLoading, isLoading, isUpdatingTexture,
                   error, service, viewer, edits, logout>>

\* initialize() rejected: the catch of the effect; attempts is what the
\* local of initialize holds at the rejection of the polling, 0 otherwise
InitRejected(attempts) ==
    /\ init' = [init EXCEPT !.pc = "rejected", !.attempts = attempts]
    /\ error' = TRUE
    /\ isLoading' = FALSE
    /\ debounce' = DebounceEffect(config, FALSE, session)
    /\ UNCHANGED <<jobs, isUpdatingTexture>>

\* (mutant) checkAPI polls without counting its attempts
CheckAPINoLimit(script) ==
    IF script = "loaded"
    THEN /\ init' = [init EXCEPT !.pc = "client", !.attempts = 0]
         /\ UNCHANGED <<error, isLoading, debounce, jobs, isUpdatingTexture>>
    ELSE IF script = "throws"
    THEN InitRejected(0)
    ELSE /\ init' = [init EXCEPT !.pc = "polling"]
         /\ UNCHANGED <<error, isLoading, debounce, jobs, isUpdatingTexture>>

\* checkAPI: script tells whether window.Sketchfab is there ("loaded"), is
\* not ("absent"), or is there and new Sketchfab / client.init throws;
\* attempts is a local of initialize, gone once the SDK is found
CheckAPI(script) ==
    IF script = "loaded"
    THEN /\ init' = [init EXCEPT !.pc = "client", !.attempts = 0]
         /\ UNCHANGED <<error, isLoading, debounce, jobs, isUpdatingTexture>>
    ELSE IF script = "throws"
    THEN InitRejected(0)
    ELSE IF init.attempts + 1 > MaxAttempts
    THEN InitRejected(init.attempts + 1)
    ELSE /\ init' = [init EXCEPT !.pc = "polling", !.attempts = @ + 1]
         /\ UNCHANGED <<error, isLoading, debounce, jobs, isUpdatingTexture>>

\* the 100 ms timer of the viewer-initialisation effect: the service is
\* created and initialize() makes its first check
viewerInitTimer ==
    /\ init.pc = "timer"
    /\ service' = NewService
    /\ \E script \in {"loaded", "absent", "throws"} : CheckAPI(script)
    /\ UNCHANGED <<gvars, session, authLoading, viewer, edits, logout>>

\* setTimeout(checkAPI, 100)
checkAPI ==
    /\ init.pc = "polling"
    /\ \E script \in {"loaded", "absent", "throws"} : CheckAPI(script)
    /\ UNCHANGED <<gvars, session, authLoading, service, viewer, edits, logout>>

\* client.init: success
clientInitSuccess ==
    /\ init.pc = "client"
    /\ service' = [service EXCEPT !.api = TRUE]
    /\ init' = [init EXCEPT !.pc = "viewerready"]
    /\ UNCHANGED <<gvars, cvars, session, authLoading, isLoading,
                   isUpdatingTexture, error, debounce, viewer, edits, logout>>

\* client.init: error
clientInitError ==
    /\ init.pc = "client"
    /\ InitRejected(0)
    /\ UNCHANGED <<gvars, session, authLoading, service, viewer, edits, logout>>

\* the viewerready event: findTShirtMaterial calls getMaterialList
viewerReady ==
    /\ init.pc = "viewerready"
    /\ init' = [init EXCEPT !.pc = "material"]
    /\ UNCHANGED <<gvars, cvars, session, authLoading, isLoading,
                   isUpdatingTexture, error, service, debounce, viewer, edits, logout>>

\* the getMaterialList callback of findTShirtMaterial during initialize:
\* initialize resolves whether a material was found or not, and the then of
\* the effect runs with the closure of the render that set the timer
initMaterialList ==
    /\ init.pc = "material"
    /\ \E reply \in MaterialReplies :
           LET name == IF reply.err THEN "null"
                       ELSE FindTarget(reply.materials)
               svc == [service EXCEPT !.tShirtMaterialName = name]
           IN  /\ service' = svc
               /\ TriggerTextureUpdate(init.cfg, svc)
    /\ init' = [init EXCEPT !.pc = "resolved"]
    /\ isLoading' = FALSE
    /\ debounce' = DebounceEffect(config, FALSE, session)
    /\ UNCHANGED <<gvars, session, authLoading, error, viewer, edits, logout>>

\* the 500 ms timer of the texture-update effect; the 100 ms timer of the
\* viewer-initialisation effect, set no later than it, has fired before
debounceTimer ==
    /\ debounce.pending
    /\ init.pc # "timer"
    /\ debounce' = NoTimer
    /\ TriggerTextureUpdate(debounce.cfg, service)
    /\ UNCHANGED <<gvars, session, authLoading, isLoading, error, service,
                   init, viewer, edits, logout>>

\* (mutant) the download waits for the viewer
handleDownloadWhenReady ==
    /\ session = "user" /\ ~authLoading
    /\ service.api
    /\ Cardinality({i \in JobIds : jobs[i].purpose = "download"}) < MaxDownloads
    /\ \E j \in JobIds, hasContext \in BOOLEAN :
           /\ FreeJob(j)
           /\ SetJob(j, [GenerateTexture(config, hasContext) EXCEPT
                             !.purpose = "download"], TRUE)
    /\ UNCHANGED <<gvars, session, authLoading, isLoading, error, service,
                   init, debounce, viewer, edits, logout>>

\* handleDownload: generateTexture(config) of the current render
handleDownload ==
    /\ session = "user" /\ ~authLoading
    /\ Cardinality({i \in JobIds : jobs[i].purpose = "download"}) < MaxDownloads
    /\ \E j \in JobIds, hasContext \in BOOLEAN :
           /\ FreeJob(j)
           /\ SetJob(j, [GenerateTexture(config, hasContext) EXCEPT
                             !.purpose = "download"], TRUE)
    /\ UNCHANGED <<gvars, session, authLoading, isLoading, error, service,
                   init, debounce, viewer, edits, logout>>

\* img.onload of loadImage
imageOnLoad(j) ==
    /\ jobs[j].pc \in {"frontImage", "backImage"}
    /\ SetJob(j, AfterGenerate(ImageResolved(jobs[j],
           Decoded(ViewOf(jobs[j].cfg, WaitingCall(jobs[j])).image.src)),
           service), FALSE)
    /\ UNCHANGED <<gvars, session, authLoading, isLoading, error, service,
                   init, debounce, viewer, edits, logout>>

\* img.onerror of loadImage
imageOnError(j) ==
    /\ jobs[j].pc \in {"frontImage", "backImage"}
    /\ SetJob(j, AfterGenerate(ImageRejected(jobs[j]), service), FALSE)
    /\ UNCHANGED <<gvars, session, authLoading, isLoading, error, service,
                   init, debounce, viewer, edits, logout>>

\* the getMaterialList callback of findTShirtMaterial called by updateTexture:
\* on an error or an empty list updateTexture resolves without an update
updateMaterialList(j) ==
    /\ jobs[j].pc = "findMaterial"
    /\ \E reply \in MaterialReplies :
           LET name == IF reply.err THEN "null"
                       ELSE FindTarget(reply.materials)
               svc == [service EXCEPT !.tShirtMaterialName =
                           IF name = "null" THEN @ ELSE name]
           IN  /\ service' = svc
               /\ SetJob(j, IF name = "null" THEN Settled(jobs[j])
                            ELSE PerformTextureUpdate(jobs[j], svc), FALSE)
    /\ UNCHANGED <<gvars, session, authLoading, isLoading, error, init,
                   debounce, viewer, edits, logout>>

\* the addTexture callback of performTextureUpdate
addTextureCallback(j) ==
    /\ jobs[j].pc = "addTexture"
    /\ \E err \in BOOLEAN :
           SetJob(j, IF err THEN Caught(jobs[j])
                     ELSE [jobs[j] EXCEPT !.pc = "getMaterialList"], FALSE)
    /\ UNCHANGED <<gvars, session, authLoading, isLoading, error, service,
                   init, debounce, viewer, edits, logout>>

\* the getMaterialList callback of performTextureUpdate: the texture is put
\* on the material's colour channels and setMaterial is called
getMaterialListCallback(j) ==
    /\ jobs[j].pc = "getMaterialList"
    /\ \E reply \in MaterialReplies :
           LET found == IF reply.err THEN {}
                        ELSE FindNamed(reply.materials,
                                       service.tShirtMaterialName)
           IN  IF found = {}
               THEN /\ SetJob(j, Caught(jobs[j]), FALSE)
                    /\ UNCHANGED viewer
               ELSE LET material ==
                            reply.materials[
                                CHOOSE k \in found : \A k2 \in found : k <= k2]
                    IN  /\ SetJob(j, [jobs[j] EXCEPT !.pc = "setMaterial"], FALSE)
                        /\ viewer' = IF material.hasChannel
                                     THEN [viewer EXCEPT !.applied = Append(@,
                                              [job |-> j,
                                               overlapped |-> jobs[j].overlapped])]
                                     ELSE viewer
    /\ UNCHANGED <<gvars, session, authLoading, isLoading, error, service,
                   init, debounce, edits, logout>>

\* the setMaterial callback of performTextureUpdate
setMaterialCallback(j) ==
    /\ jobs[j].pc = "setMaterial"
    /\ \E err \in BOOLEAN :
           SetJob(j, IF err THEN Caught(jobs[j]) ELSE Settled(jobs[j]), FALSE)
    /\ UNCHANGED <<gvars, session, authLoading, isLoading, error, service,
                   init, debounce, viewer, edits, logout>>

\* ControlPanel: a base colour button or the colour input
setBaseColor ==
    /\ session = "user" /\ ~authLoading
    /\ edits < MaxEdits
    /\ \E c \in Colours : config' = [config EXCEPT !.baseColor = c]
    /\ edits' = edits + 1
    /\ debounce' = DebounceEffect(config', isLoading, session)
    /\ UNCHANGED <<activeSide, activeElement, isDragging, interactionType,
                   dragRef, effectSide, containerRect, containerMounted,
                   uploads, moves, hist, cvars, session, authLoading,
                   isLoading, isUpdatingTexture, error, service, init, viewer,
                   logout>>

\* the values the text controls of the panel can give: the text input, the
\* colour input and the font select
TextEdits ==
    { [field |-> "content", value |-> "Hi"],
      [field |-> "content", value |-> ""],
      [field |-> "color", value |-> "#dc2626"],
      [field |-> "fontFamily", value |-> "Times New Roman"] }

\* ControlPanel: onChange of a text control
handleTextChange ==
    /\ session = "user" /\ ~authLoading
    /\ edits < MaxEdits
    /\ \E e \in TextEdits :
           /\ config[activeSide].text[e.field] # e.value
           /\ config' = updateActiveSide(config, activeSide,
                  [config[activeSide] EXCEPT !.text[e.field] = e.value])
    /\ edits' = edits + 1
    /\ debounce' = DebounceEffect(config', isLoading, session)
    /\ UNCHANGED <<activeSide, activeElement, isDragging, interactionType,
                   dragRef, effectSide, containerRect, containerMounted,
                   uploads, moves, hist, cvars, session, authLoading,
                   isLoading, isUpdatingTexture, error, service, init, viewer,
                   logout>>

\* an editor or panel handler within the App: a change of config re-runs the
\* texture-update effect
InApp(handler) ==
    /\ session = "user" /\ ~authLoading
    /\ handler
    /\ debounce' = IF config' = config THEN debounce
                   ELSE DebounceEffect(config', isLoading, session)
    /\ UNCHANGED <<cvars, session, authLoading, isLoading, isUpdatingTexture,
                   error, service, init, viewer, edits, logout>>

\* reader.onload within the App: the FileReader calls setConfig whether or not
\* the panel that started it is still shown
AppReaderOnLoad ==
    /\ readerOnLoad
    /\ debounce' = DebounceEffect(config', isLoading, session)
    /\ UNCHANGED <<cvars, session, authLoading, isLoading, isUpdatingTexture,
                   error, service, init, viewer, edits, logout>>

\* an update request is between its start and its settlement
UpdateInFlight ==
    \E j \in JobIds : jobs[j].purpose = "update" /\ ~Returned(jobs[j])

\* initialize() has been called and has neither resolved nor rejected
InitInFlight == init.pc \in {"polling", "client", "viewerready", "material"}

\* handleLogout: supabase.auth.signOut(), then onAuthStateChange sets the
\* session to null; the App shows the AuthPage, the panel and the editor are
\* unmounted, and the cleanups of both effects clear their timers.  The
\* sign-out is taken when no viewer call is outstanding.
SignedOut ==
    /\ session = "user" /\ ~authLoading
    /\ ~isDragging
    /\ ~InitInFlight /\ ~UpdateInFlight
    /\ session' = "null"
    /\ init' = IF init.pc = "timer" THEN InitEffect(config, "null") ELSE init
    /\ debounce' = NoTimer
    /\ activeSide' = "front"
    /\ activeElement' = "none"
    /\ interactionType' = "none"
    /\ dragRef' = DragRefInit
    /\ effectSide' = "front"
    /\ hist' = HistInit(containerRect)
    /\ UNCHANGED <<config, isDragging, containerRect, containerMounted,
                   uploads, moves, cvars, authLoading, isLoading,
                   isUpdatingTexture, error, service, viewer, edits>>

signOut == SignedOut /\ UNCHANGED logout

\* bound on the handleLogout calls of one behaviour
MaxLogouts == 2

\* what the insert of logAction can do: return no error, return an error,
\* or throw
LogOutcomes == {"inserted", "error", "throws"}

\* logAction: the error is written to the console, the exception is caught;
\* the promise resolves in every case
LogAction(outcome) ==
    CASE outcome = "inserted" -> "resolved"
      [] outcome = "error"    -> "resolved"
      [] OTHER                -> "resolved"

\* (mutant) handleLogout calling signOut after the log entry in the try
\* block, with no finally: a log write that did not succeed skips it
AfterLogActionNoFinally(call, outcome) ==
    IF outcome = "inserted"
    THEN [call EXCEPT !.pc = "signOut", !.log = outcome, !.signOuts = @ + 1]
    ELSE [call EXCEPT !.pc = "idle", !.log = outcome]

\* handleLogout after its await of logAction: a rejection is ignored by the
\* inner catch, and the finally calls supabase.auth.signOut()
AfterLogAction(call, outcome) ==
    LET finally == [call EXCEPT !.pc = "signOut", !.log = outcome,
                                !.signOuts = @ + 1]
    IN  IF LogAction(outcome) = "resolved" THEN finally ELSE finally

\* handleLogout up to its await: logAction is called with the user's id and
\* email, or with 'unknown' when the panel was given no user
handleLogout ==
    /\ session = "user" /\ ~authLoading
    /\ ~isDragging
    /\ logout.pc = "idle"
    /\ logout.calls < MaxLogouts
    /\ \E hasUser \in BOOLEAN :
           logout' = [logout EXCEPT
                         !.pc = "logAction",
                         !.user = IF hasUser THEN "user" ELSE "unknown",
                         !.log = "pending",
                         !.calls = @ + 1]
    /\ UNCHANGED <<gvars, cvars, session, authLoading, isLoading,
                   isUpdatingTexture, error, service, init, debounce, viewer,
                   edits>>

\* the insert of logAction has settled
logActionSettled ==
    /\ logout.pc = "logAction"
    /\ \E outcome \in LogOutcomes : logout' = AfterLogAction(logout, outcome)
    /\ UNCHANGED <<gvars, cvars, session, authLoading, isLoading,
                   isUpdatingTexture, error, service, init, debounce, viewer,
                   edits>>

\* supabase.auth.signOut() has resolved and onAuthStateChange has set the
\* session to null
signOutSettled ==
    /\ logout.pc = "signOut"
    /\ SignedOut
    /\ logout' = [logout EXCEPT !.pc = "idle"]

\* the button of the error overlay: window.location.reload() constructs the
\* App anew and drops every request of the old page
reloadPage ==
    /\ session = "user" /\ ~authLoading
    /\ error
    /\ config' = INITIAL_STATE
    /\ activeSide' = "front"
    /\ activeElement' = "none"
    /\ isDragging' = FALSE
    /\ interactionType' = "none"
    /\ dragRef' = DragRefInit
    /\ effectSide' = "front"
    /\ uploads' = {}
    /\ moves' = 0
    /\ hist' = HistInit(containerRect)
    /\ jobs' = [j \in JobIds |-> IdleJob]
    /\ session' = "null"
    /\ authLoading' = TRUE
    /\ isLoading' = TRUE
    /\ isUpdatingTexture' = FALSE
    /\ error' = FALSE
    /\ service' = NoService
    /\ init' = InitEffect(INITIAL_STATE, "null")
    /\ debounce' = DebounceEffect(INITIAL_STATE, TRUE, "null")
    /\ viewer' = [applied |-> <<>>]
    /\ edits' = 0
    /\ logout' = LogoutInit
    /\ UNCHANGED <<containerRect, containerMounted>>

-----------------------------------------------------------------------------
(* Specification of the compositor: one configuration, composited          *)

\* the configurations the compositor is run on
CompConfigs ==
    { [baseColor |-> bc, front |-> f, back |-> b] :
        bc \in Colours,
        f \in CompViews, b \in CompViews }

InitComp ==
    /\ config \in CompConfigs
    /\ activeSide = "front"
    /\ activeElement = "none"
    /\ isDragging = FALSE
    /\ interactionType = "none"
    /\ dragRef = DragRefInit
    /\ effectSide = "front"
    /\ containerRect \in Rects
    /\ containerMounted = TRUE
    /\ uploads = {}
    /\ moves = 0
    /\ hist = HistInit(containerRect)
    /\ InitJobs
    /\ InitSignedIn

NextComp ==
    \/ handleDownload
    \/ \E j \in JobIds : imageOnLoad(j)
    \/ \E j \in JobIds : imageOnError(j)

SpecComp == InitComp /\ [][NextComp]_vars

-----------------------------------------------------------------------------
(* Specification of the App: sign-in, viewer initialisation, edits of the  *)
(* configuration and the texture updates they cause                        *)

InitAppSpec ==
    /\ config = INITIAL_STATE
    /\ activeSide = "front"
    /\ activeElement = "none"
    /\ isDragging = FALSE
    /\ interactionType = "none"
    /\ dragRef = DragRefInit
    /\ effectSide = "front"
    /\ containerRect = CHOOSE r \in Rects : \A r2 \in Rects : RLe(r.width, r2.width)
    /\ containerMounted = TRUE
    /\ uploads = {}
    /\ moves = 0
    /\ hist = HistInit(containerRect)
    /\ InitJobs
    /\ InitApp

NextApp ==
    \/ getSessionResolved
    \/ signedIn
    \/ viewerInitTimer
    \/ checkAPI
    \/ clientInitSuccess
    \/ clientInitError
    \/ viewerReady
    \/ initMaterialList
    \/ debounceTimer
    \/ setBaseColor
    \/ InApp(handleImageUpload)
    \/ AppReaderOnLoad
    \/ \E j \in JobIds : imageOnLoad(j)
    \/ \E j \in JobIds : imageOnError(j)
    \/ \E j \in JobIds : updateMaterialList(j)
    \/ \E j \in JobIds : addTextureCallback(j)
    \/ \E j \in JobIds : getMaterialListCallback(j)
    \/ \E j \in JobIds : setMaterialCallback(j)

SpecApp == InitAppSpec /\ [][NextApp]_vars

-----------------------------------------------------------------------------
(* Specification of the panel: every way the signed-in user changes the    *)
(* configuration, while the viewer is still loading                        *)

\* the App just signed in, with the configuration it is constructed with
InitEdit ==
    /\ InitGesture
    /\ config = INITIAL_STATE
    /\ containerRect.width = containerRect.height

\* a control of the panel that is pressed: the overlay covers it during a
\* drag
WhileIdle(handler) == ~isDragging /\ handler

\* the text input keeps the keyboard during a drag
NextEdit ==
    \/ InApp(~isDragging /\ handleMouseDown)
    \/ InApp(handleMouseMove)
    \/ InApp(handleMouseUp)
    \/ InApp(~isDragging /\ handleDelete)
    \/ InApp(~isDragging /\ handleSideChange)
    \/ InApp(~isDragging /\ handleImageUpload)
    \/ AppReaderOnLoad
    \/ WhileIdle(setBaseColor)
    \/ handleTextChange

SpecEdit == InitEdit /\ [][NextEdit]_vars

-----------------------------------------------------------------------------
(* Specification of the snapshots: composites requested by Download while  *)
(* the editor and the panel go on changing the configuration               *)

NextSnapshot ==
    \/ InApp(~isDragging /\ handleMouseDown)
    \/ InApp(handleMouseMove)
    \/ InApp(handleMouseUp)
    \/ InApp(~isDragging /\ handleImageUpload)
    \/ AppReaderOnLoad
    \/ WhileIdle(setBaseColor)
    \/ WhileIdle(handleDownload)
    \/ \E j \in JobIds : imageOnLoad(j)

SpecSnapshot == InitEdit /\ [][NextSnapshot]_vars

-----------------------------------------------------------------------------
(* Specification of the sessions: the App across sign-out and sign-in,      *)
(* edited through the base colour, with downloads                          *)

NextSession ==
    \/ getSessionResolved
    \/ signedIn
    \/ signOut
    \/ viewerInitTimer
    \/ checkAPI
    \/ clientInitSuccess
    \/ clientInitError
    \/ viewerReady
    \/ initMaterialList
    \/ debounceTimer
    \/ setBaseColor
    \/ handleDownload
    \/ reloadPage
    \/ \E j \in JobIds : updateMaterialList(j)
    \/ \E j \in JobIds : addTextureCallback(j)
    \/ \E j \in JobIds : getMaterialListCallback(j)
    \/ \E j \in JobIds : setMaterialCallback(j)

SpecSession == InitAppSpec /\ [][NextSession]_vars

\* a timer that was set fires: the 100 ms timer of the init effect and the
\* setTimeout(checkAPI, 100) of the polling
SpecSessionFair ==
    SpecSession /\ WF_vars(viewerInitTimer) /\ WF_vars(checkAPI)

-----------------------------------------------------------------------------
(* Specification of the texture updates: the App of one session whose      *)
(* configuration has no image, and the viewer answering its calls          *)

NextUpdate ==
    \/ getSessionResolved
    \/ signedIn
    \/ viewerInitTimer
    \/ checkAPI
    \/ clientInitSuccess
    \/ clientInitError
    \/ viewerReady
    \/ initMaterialList
    \/ debounceTimer
    \/ setBaseColor
    \/ \E j \in JobIds : updateMaterialList(j)
    \/ \E j \in JobIds : addTextureCallback(j)
    \/ \E j \in JobIds : getMaterialListCallback(j)
    \/ \E j \in JobIds : setMaterialCallback(j)

SpecUpdate == InitAppSpec /\ [][NextUpdate]_vars

\* the viewer invokes every callback it was given
SpecUpdateFair ==
    /\ SpecUpdate
    /\ \A j \in JobIds :
           /\ WF_vars(updateMaterialList(j))
           /\ WF_vars(addTextureCallback(j))
           /\ WF_vars(getMaterialListCallback(j))
           /\ WF_vars(setMaterialCallback(j))

-----------------------------------------------------------------------------
(* Specification of a long session: the App of one session whose token is  *)
(* refreshed                                                               *)

\* onAuthStateChange with a new session object of the same user
\* (TOKEN_REFRESHED, SIGNED_IN on a refocus): setSession(session) gives the
\* state a new object, and the effects that depend on session run again.
\* The cleanup of the init effect clears its timer, the effect sets a new
\* one.  The event is taken when no initialize() is outstanding.
tokenRefreshed ==
    /\ session = "user" /\ ~authLoading
    /\ ~InitInFlight
    /\ session' = "user"
    /\ init' = InitEffect(config, "user")
    /\ debounce' = DebounceEffect(config, isLoading, "user")
    /\ UNCHANGED <<gvars, cvars, authLoading, isLoading, isUpdatingTexture,
                   error, service, viewer, edits, logout>>

NextRefresh ==
    \/ getSessionResolved
    \/ signedIn
    \/ tokenRefreshed
    \/ viewerInitTimer
    \/ checkAPI
    \/ clientInitSuccess
    \/ clientInitError
    \/ viewerReady
    \/ initMaterialList
    \/ debounceTimer
    \/ \E j \in JobIds : updateMaterialList(j)
    \/ \E j \in JobIds : addTextureCallback(j)
    \/ \E j \in JobIds : getMaterialListCallback(j)
    \/ \E j \in JobIds : setMaterialCallback(j)

SpecRefresh == InitAppSpec /\ [][NextRefresh]_vars

-----------------------------------------------------------------------------
(* Specification of the logout: the App of several sessions, each ended    *)
(* with the panel's logout button                                          *)

NextLogout ==
    \/ getSessionResolved
    \/ signedIn
    \/ handleLogout
    \/ logActionSettled
    \/ signOutSettled
    \/ viewerInitTimer
    \/ checkAPI
    \/ clientInitSuccess
    \/ clientInitError
    \/ viewerReady
    \/ initMaterialList
    \/ debounceTimer
    \/ \E j \in JobIds : updateMaterialList(j)
    \/ \E j \in JobIds : addTextureCallback(j)
    \/ \E j \in JobIds : getMaterialListCallback(j)
    \/ \E j \in JobIds : setMaterialCallback(j)

SpecLogout == InitAppSpec /\ [][NextLogout]_vars

\* the request of the insert ends: the client resolves with a result or an
\* error, or the call throws
SpecLogoutFair == SpecLogout /\ WF_vars(logActionSettled)

-----------------------------------------------------------------------------
(* Specification of the deletions: the App of one session, edited by        *)
(* selecting an element and deleting it                                    *)

NextDelete ==
    \/ getSessionResolved
    \/ signedIn
    \/ viewerInitTimer
    \/ checkAPI
    \/ clientInitSuccess
    \/ clientInitError
    \/ viewerReady
    \/ initMaterialList
    \/ debounceTimer
    \/ InApp(~isDragging /\ handleMouseDown)
    \/ InApp(handleMouseUp)
    \/ InApp(~isDragging /\ handleDelete)
    \/ \E j \in JobIds : updateMaterialList(j)
    \/ \E j \in JobIds : addTextureCallback(j)
    \/ \E j \in JobIds : getMaterialListCallback(j)
    \/ \E j \in JobIds : setMaterialCallback(j)

SpecDelete == InitAppSpec /\ [][NextDelete]_vars


-----------------------------------------------------------------------------
(* Properties of the gesture controller                                    *)

\* clamp(v, lo, hi) of the specification
Clamp(v, lo, hi) == IF RLt(v, lo) THEN lo ELSE IF RLt(hi, v) THEN hi ELSE v

\* the last step was a pointer-move of the given kind that updated a transform
MovedBy(kind) ==
    /\ hist.op \in {"mouseMove", "touchMove"}
    /\ hist.applied
    /\ hist.begin.kind = kind


\* the transform of the element the running gesture was begun on
GestureTransform == config[hist.begin.side][hist.begin.type].transform

\* the element's centre at gesture start, in client coordinates
BeginCentreX ==
    RAdd(hist.begin.rect.left,
         RDiv(RMul(hist.begin.transform.x, hist.begin.rect.width), Q(100)))

BeginCentreY ==
    RAdd(hist.begin.rect.top,
         RDiv(RMul(hist.begin.transform.y, hist.begin.rect.height), Q(100)))

\* distance between two points on one horizontal or vertical line
AxisDistance(x1, y1, x2, y2) ==
    IF y1 = y2 THEN (IF RLt(x1, x2) THEN RSub(x2, x1) ELSE RSub(x1, x2))
    ELSE (IF RLt(y1, y2) THEN RSub(y2, y1) ELSE RSub(y1, y2))

OnAxis(x1, y1, x2, y2) == x1 = x2 \/ y1 = y2

\* the pointer was, at gesture start and at the last pointer-move, on a
\* horizontal or vertical line through the element's centre
PointerOnAxes ==
    /\ OnAxis(BeginCentreX, BeginCentreY, hist.begin.x, hist.begin.y)
    /\ OnAxis(BeginCentreX, BeginCentreY, hist.x, hist.y)

\* direction from the centre to a point on an axis through it, in degrees,
\* the y axis pointing down the screen
AxisAngleDeg(cx, cy, x, y) ==
    IF y = cy THEN (IF RLt(x, cx) THEN Q(180) ELSE Q(0))
    ELSE (IF RLt(cy, y) THEN Q(90) ELSE Q(-90))

TransformInBounds(t) ==
    /\ RLe(Q(0), t.x) /\ RLe(t.x, Q(100))
    /\ RLe(Q(0), t.y) /\ RLe(t.y, Q(100))
    /\ RLe(Frac(1, 10), t.scale) /\ RLe(t.scale, Q(5))

\* C1: in every reachable state, whatever gestures, deletions, deselections,
\* side switches and image uploads came before and wherever the pointer was,
\* every image and text transform has 0 <= x <= 100, 0 <= y <= 100 and
\* 0.1 <= scale <= 5.
C1_TransformBounds ==
    \A side \in Sides, type \in Elems :
        TransformInBounds(config[side][type].transform)

\* C1 witness: a move gesture with the pointer far to the right of and below
\* the container left the element on the border x = 100, y = 100.
C1_Witness ==
    /\ MovedBy("move")
    /\ RLt(RAdd(hist.rect.left, RMul(Q(2), hist.rect.width)), hist.x)
    /\ RLt(RAdd(hist.rect.top, RMul(Q(2), hist.rect.height)), hist.y)
    /\ GestureTransform.x = Q(100)
    /\ GestureTransform.y = Q(100)
    /\ hist.begin.transform.x # Q(100)

\* C2: after a pointer-move of a move gesture begun with transform (x0, y0)
\* at pointer (sx, sy), with the pointer now at (sx + dx, sy + dy) and the
\* container W wide and H high, x = clamp(x0 + 100*dx/W, 0, 100) and
\* y = clamp(y0 + 100*dy/H, 0, 100), for the mouse and the touch handler.
C2_MoveFormula ==
    MovedBy("move") =>
        LET dx == RSub(hist.x, hist.begin.x)
            dy == RSub(hist.y, hist.begin.y)
            W  == hist.rect.width
            H  == hist.rect.height
        IN  /\ GestureTransform.x =
                  Clamp(RAdd(hist.begin.transform.x,
                             RDiv(RMul(Q(100), dx), W)), Q(0), Q(100))
            /\ GestureTransform.y =
                  Clamp(RAdd(hist.begin.transform.y,
                             RDiv(RMul(Q(100), dy), H)), Q(0), Q(100))

\* C2 witness: a touch move in a container that is not square moved the
\* element to a point strictly inside it, away from where it started.
C2_Witness ==
    /\ MovedBy("move")
    /\ hist.op = "touchMove"
    /\ hist.rect.width # hist.rect.height
    /\ RLt(Q(0), GestureTransform.x) /\ RLt(GestureTransform.x, Q(100))
    /\ RLt(Q(0), GestureTransform.y) /\ RLt(GestureTransform.y, Q(100))
    /\ GestureTransform.x # hist.begin.transform.x
    /\ GestureTransform.y # hist.begin.transform.y

\* the scale a pointer-move of a scale gesture gives when the initial
\* distance is replaced by safe(initial distance)
ScaleWith(safeInitialDistance) ==
    Clamp(RDiv(RMul(hist.begin.transform.scale,
                    AxisDistance(BeginCentreX, BeginCentreY, hist.x, hist.y)),
               safeInitialDistance),
          Frac(1, 10), Q(5))

BeginDistance ==
    AxisDistance(BeginCentreX, BeginCentreY, hist.begin.x, hist.begin.y)

\* C3 as claimed: after a pointer-move of a scale gesture the scale is
\* clamp(initialScale * currentDistance / max(initialDistance, 1), 0.1, 5):
\* every initial distance below 1 pixel is treated as 1.
C3_Claimed_FlooredDistance ==
    (MovedBy("scale") /\ PointerOnAxes) =>
        GestureTransform.scale =
            ScaleWith(IF RLt(BeginDistance, Q(1)) THEN Q(1) ELSE BeginDistance)

\* C3 amended: after a pointer-move of a scale gesture the scale is
\* clamp(initialScale * currentDistance / d, 0.1, 5) where d is 1 if the
\* initial distance is exactly 0 and the initial distance itself otherwise,
\* also when that is below 1 pixel.
C3_ZeroDistanceOnly ==
    (MovedBy("scale") /\ PointerOnAxes) =>
        GestureTransform.scale =
            ScaleWith(IF BeginDistance = Q(0) THEN Q(1) ELSE BeginDistance)

\* C3 witness: a scale gesture begun half a pixel from the centre, the
\* pointer now one pixel from it, doubled the scale.
C3_Witness ==
    /\ MovedBy("scale")
    /\ BeginDistance = Frac(1, 2)
    /\ AxisDistance(BeginCentreX, BeginCentreY, hist.x, hist.y) = Q(1)
    /\ hist.begin.transform.scale = Q(1)
    /\ GestureTransform.scale = Q(2)

\* C4: after a pointer-move of a rotate gesture, rotation is
\* (initialRotation + (currentAngle - initialAngle) in degrees) % 360 with
\* the sign of the dividend kept; a gesture begun directly right of the
\* centre with the pointer now directly below it gives
\* (initialRotation + 90) % 360, for every initial rotation.
C4_RotateFormula ==
    (MovedBy("rotate") /\ PointerOnAxes) =>
        LET r0 == hist.begin.transform.rotation
            a0 == AxisAngleDeg(BeginCentreX, BeginCentreY,
                               hist.begin.x, hist.begin.y)
            a1 == AxisAngleDeg(BeginCentreX, BeginCentreY, hist.x, hist.y)
        IN  /\ GestureTransform.rotation =
                  JSRem(RAdd(r0, RSub(a1, a0)), Q(360))
            /\ (a0 = Q(0) /\ a1 = Q(90)) =>
                  GestureTransform.rotation = JSRem(RAdd(r0, Q(90)), Q(360))

\* C4 witness: a touch rotate from directly right of the centre to directly
\* below it, begun at rotation -90, left the rotation at 0.
C4_Witness ==
    /\ MovedBy("rotate")
    /\ hist.op = "touchMove"
    /\ hist.begin.y = BeginCentreY /\ RLt(BeginCentreX, hist.begin.x)
    /\ hist.x = BeginCentreX /\ RLt(BeginCentreY, hist.y)
    /\ hist.begin.transform.rotation = Q(-90)
    /\ GestureTransform.rotation = Q(0)


\* C12: while a gesture is active a release of the pointer can be handled
\* wherever the pointer is and whatever it is over, the release ends the
\* interaction session (isDragging false, no interaction type), and every
\* dragging state is followed by a state that is not dragging.
C12_ReleaseEndsDrag ==
    /\ [](isDragging => ENABLED InEditor(handleMouseUp))
    /\ [][InEditor(handleMouseUp) =>
              ~isDragging' /\ interactionType' = "none"]_vars
    /\ (isDragging ~> ~isDragging)

\* a move gesture was ended by a release after the pointer had left the
\* container: the element was carried to the corner from somewhere else
C12_Witness ==
    /\ ~isDragging /\ interactionType = "none"
    /\ moves > 0
    /\ hist.op = "other"
    /\ hist.begin.kind = "move"
    /\ GestureTransform.x = Q(100) /\ GestureTransform.y = Q(100)
    /\ hist.begin.transform.x # Q(100)

\* the side that is not shown in the editor
OtherSide(side) == IF side = "front" THEN "back" ELSE "front"

\* C14: deleting the selected element of the active side empties the text
\* content (text) or makes the image source absent (image) and clears the
\* selection; the deleted element's transform and other fields, the other
\* element of the side, the other side and the base colour are unchanged,
\* and no drag is started.
C14_DeleteFrame ==
    [][InEditor(handleDelete) =>
          /\ activeElement \in Elems
          /\ (activeElement = "text" =>
                  config'[activeSide].text =
                      [config[activeSide].text EXCEPT !.content = ""]
                  /\ config'[activeSide].image = config[activeSide].image)
          /\ (activeElement = "image" =>
                  config'[activeSide].image =
                      [config[activeSide].image EXCEPT !.src = NoSrc]
                  /\ config'[activeSide].text = config[activeSide].text)
          /\ config'[activeSide][activeElement].transform =
                 config[activeSide][activeElement].transform
          /\ config'[OtherSide(activeSide)] = config[OtherSide(activeSide)]
          /\ config'.baseColor = config.baseColor
          /\ activeElement' = "none"
          /\ activeSide' = activeSide
          /\ ~isDragging' /\ interactionType' = "none" /\ dragRef' = dragRef]_vars

\* the front text was moved away from its default place and then deleted:
\* it is empty, unselected, and still has the transform of the move
C14_Witness ==
    /\ config.front.text.content = ""
    /\ activeElement = "none" /\ ~isDragging
    /\ moves > 0
    /\ hist.begin.type = "text" /\ hist.begin.side = "front"
    /\ config.front.text.transform # hist.begin.transform
    /\ config.front.text.transform # DEFAULT_VIEW_STATE.text.transform

-----------------------------------------------------------------------------
(* Properties of the compositor                                            *)

Ops(j) == jobs[j].ctx.ops

OpIdx(j) == 1..Len(Ops(j))

half == size \div 2

\* the clip confines drawing to lo <= x < hi: one of the clipped paths is
\* made of rectangles laid out in canvas coordinates within that range
ClipKeepsWithin(clip, lo, hi) ==
    \E i \in 1..Len(clip) :
        \A k \in 1..Len(clip[i]) :
            /\ clip[i][k].tf = <<>>
            /\ RLe(Q(lo), clip[i][k].x)
            /\ RLe(RAdd(clip[i][k].x, clip[i][k].w), Q(hi))

\* the draw call was made with the origin moved to x = cx
CentredAt(o, cx) == Len(o.tf) >= 1 /\ o.tf[1].op = "translate" /\ o.tf[1].x = cx

\* C5: in every composite, at every moment, what the first drawView call
\* (front) draws is clipped to x < 1024 and what the second (back) draws is
\* clipped to x >= 1024; the front clip has been released when the back is
\* drawn (the back's draws are under one clip only, and while the back image
\* loads and once the composite is done no earlier clip or save is left).
C5_SplitInvariant ==
    \A j \in JobIds :
        /\ \A i \in OpIdx(j) :
               LET o == Ops(j)[i]
               IN  /\ o.call = 1 => ClipKeepsWithin(o.clip, 0, half)
                   /\ o.call = 2 => /\ ClipKeepsWithin(o.clip, half, size)
                                    /\ Len(o.clip) = 1
        /\ jobs[j].pc = "backImage" =>
               /\ Len(jobs[j].ctx.clip) = 1
               /\ Len(jobs[j].ctx.stack) = 1
               /\ jobs[j].ctx.stack[1].clip = <<>>
        /\ jobs[j].pc = "done" =>
               jobs[j].ctx.clip = <<>> /\ jobs[j].ctx.stack = <<>>

\* a finished composite whose front image and back image are both centred on
\* the seam x = 1024, scaled and rotated, so that each reaches over it
C5_Witness ==
    \E j \in JobIds :
        /\ jobs[j].pc = "done"
        /\ \E i \in OpIdx(j) :
               /\ Ops(j)[i].call = 1 /\ Ops(j)[i].op = "drawImage"
               /\ CentredAt(Ops(j)[i], Q(half))
               /\ RLt(Q(half), Ops(j)[i].w)
        /\ \E i \in OpIdx(j) :
               /\ Ops(j)[i].call = 2 /\ Ops(j)[i].op = "drawImage"
               /\ CentredAt(Ops(j)[i], Q(half))
               /\ Ops(j)[i].tf[2].angle # Q(0)

\* C6 as claimed: the image's rendered width as a fraction of its side's
\* width, and the text's font size as a fraction of its side's width, are
\* the same in the editor (side = the container) and in the composite
\* (side = the 1024-pixel region).
C6_Claimed_SameBaseSize ==
    \A j \in JobIds :
        jobs[j].pc = "done" =>
            \A i \in OpIdx(j) :
                LET o == Ops(j)[i]
                    view == ViewOf(jobs[j].cfg, o.call)
                    w == ViewArea(o.call).width
                IN  /\ o.op = "drawImage" =>
                           RDiv(o.w, w) =
                           RDiv(RenderedImageWidth(view, containerRect.width),
                                containerRect.width)
                    /\ o.op = "fillText" =>
                           RDiv(o.font.px, w) =
                           RDiv(RenderedFontSize(view), containerRect.width)

\* the pixel a point of the canvas lies in
PixelOf(x, y) == <<RFloor(x), RFloor(y)>>

\* C7: the composite of the initial configuration is the white fill of the
\* whole 2048x2048 canvas, unclipped, and exactly one more draw: the text
\* "ZHEIDE" in black, clipped to the left half, centred in both directions on
\* a point in pixel (512, 614), unrotated; nothing is drawn in the right half.
C7_InitialComposite ==
    \A j \in JobIds :
        (jobs[j].pc = "done" /\ jobs[j].cfg = INITIAL_STATE) =>
            /\ Len(Ops(j)) = 2
            /\ LET o == Ops(j)[1]
               IN  /\ o.op = "fillRect" /\ o.fillStyle = "#ffffff"
                   /\ o.x = Q(0) /\ o.y = Q(0) /\ o.w = Q(2048) /\ o.h = Q(2048)
                   /\ o.clip = <<>> /\ o.tf = <<>>
            /\ LET o == Ops(j)[2]
               IN  /\ o.op = "fillText" /\ o.what = "ZHEIDE"
                   /\ o.fillStyle = "#000000"
                   /\ o.textAlign = "center" /\ o.textBaseline = "middle"
                   /\ ClipKeepsWithin(o.clip, 0, 1024)
                   /\ Len(o.tf) = 2
                   /\ o.tf[1].op = "translate"
                   /\ PixelOf(RAdd(o.tf[1].x, o.x), RAdd(o.tf[1].y, o.y)) = <<512, 614>>
                   /\ o.tf[2] = [op |-> "rotate", angle |-> Q(0)]

\* the initial configuration has been composited
C7_Witness ==
    \E j \in JobIds :
        /\ jobs[j].pc = "done"
        /\ jobs[j].cfg = INITIAL_STATE
        /\ Len(Ops(j)) > 1

\* the transformation that puts the origin at (cx, cy) and turns by deg degrees
\* about it
AboutCentre(cx, cy, deg) ==
    << [op |-> "translate", x |-> cx, y |-> cy],
       [op |-> "rotate", angle |-> RDiv(deg, Q(180))] >>

RegionCentre(a, t) ==
    [x |-> RAdd(a.offsetX, RDiv(RMul(t.x, a.width), Q(100))),
     y |-> RAdd(a.offsetY, RDiv(RMul(t.y, a.height), Q(100)))]

DrawsOf(j, call, op) ==
    {i \in OpIdx(j) : Ops(j)[i].call = call /\ Ops(j)[i].op = op}

\* C8: in a finished composite, for each region (ox, oy, w, h): an image
\* that is present and has loaded is drawn once, w/2 * scale wide, its height
\* in the proportion of its natural size, centred on the origin of a
\* transformation that puts the origin at (ox + x/100*w, oy + y/100*h) and
\* turns by rotation degrees; a present text is drawn once at that origin for
\* its own transform, centred in both directions, in bold, with font size
\* fontSize * (w/100) * scale, in its family and colour.
C8_DrawGeometry ==
    \A j \in JobIds : \A call \in {1, 2} :
        jobs[j].pc = "done" =>
            LET view == ViewOf(jobs[j].cfg, call)
                a == ViewArea(call)
            IN  /\ (HasImage(view) /\ call \notin jobs[j].loadFailed) =>
                       /\ Cardinality(DrawsOf(j, call, "drawImage")) = 1
                       /\ \A i \in DrawsOf(j, call, "drawImage") :
                              LET o == Ops(j)[i]
                                  t == view.image.transform
                                  c == RegionCentre(a, t)
                              IN  /\ o.w = RMul(RMul(Frac(1, 2), a.width), t.scale)
                                  /\ RMul(o.h, o.natural.width) =
                                     RMul(o.w, o.natural.height)
                                  /\ o.tf = AboutCentre(c.x, c.y, t.rotation)
                                  /\ RAdd(o.x, RDiv(o.w, Q(2))) = Q(0)
                                  /\ RAdd(o.y, RDiv(o.h, Q(2))) = Q(0)
                /\ HasText(view) =>
                       /\ Cardinality(DrawsOf(j, call, "fillText")) = 1
                       /\ \A i \in DrawsOf(j, call, "fillText") :
                              LET o == Ops(j)[i]
                                  t == view.text.transform
                                  c == RegionCentre(a, t)
                              IN  /\ o.font =
                                       [weight |-> "bold",
                                        px |-> RMul(RDiv(RMul(view.text.fontSize,
                                                   a.width), Q(100)), t.scale),
                                        family |-> view.text.fontFamily]
                                  /\ o.fillStyle = view.text.color
                                  /\ o.what = view.text.content
                                  /\ o.tf = AboutCentre(c.x, c.y, t.rotation)
                                  /\ o.x = Q(0) /\ o.y = Q(0)
                                  /\ o.textAlign = "center"
                                  /\ o.textBaseline = "middle"

\* a finished composite with a scaled, rotated image and a scaled, rotated
\* text drawn in the same region
C8_Witness ==
    \E j \in JobIds : \E call \in {1, 2} :
        /\ jobs[j].pc = "done"
        /\ \E i \in DrawsOf(j, call, "drawImage") :
               /\ Ops(j)[i].w # Q(half \div 2)
               /\ Ops(j)[i].w # Ops(j)[i].h
               /\ Ops(j)[i].tf[2].angle # Q(0)
        /\ \E i \in DrawsOf(j, call, "fillText") :
               /\ ViewOf(jobs[j].cfg, call).text.transform.scale # Q(1)
               /\ Ops(j)[i].tf[2].angle # Q(0)

\* the draws a composite of cfg is to make when the image loads of the calls
\* in failed were rejected
RECURSIVE ExpectedDraws(_, _, _)
ExpectedDraws(cfg, failed, call) ==
    IF call > 2 THEN <<>>
    ELSE (IF HasImage(ViewOf(cfg, call)) /\ call \notin failed
          THEN << <<"drawImage", call>> >> ELSE <<>>)
         \o (IF HasText(ViewOf(cfg, call))
             THEN << <<"fillText", call>> >> ELSE <<>>)
         \o ExpectedDraws(cfg, failed, call + 1)

\* C9: a composite in which an image load was rejected does not fail; the
\* context is balanced after the skipped image (while the back image loads
\* only the back's own clip and save are in force, at the end none, and the
\* transformation is the identity); the finished composite has the base
\* colour fill and, in order, every text and every other image, and no draw
\* of the rejected image.
C9_FailureSkipsImageOnly ==
    \A j \in JobIds :
        jobs[j].loadFailed # {} =>
            /\ jobs[j].pc \in {"backImage", "done"}
            /\ jobs[j].ctx.tf = <<>>
            /\ jobs[j].pc = "backImage" =>
                   /\ Len(jobs[j].ctx.stack) = 1
                   /\ Len(jobs[j].ctx.clip) = 1
                   /\ ClipKeepsWithin(jobs[j].ctx.clip, half, size)
            /\ jobs[j].pc = "done" =>
                   /\ jobs[j].ctx.stack = <<>>
                   /\ jobs[j].ctx.clip = <<>>
                   /\ [i \in OpIdx(j) |-> <<Ops(j)[i].op, Ops(j)[i].call>>] =
                      << <<"fillRect", 0>> >>
                          \o ExpectedDraws(jobs[j].cfg, jobs[j].loadFailed, 1)
                   /\ Ops(j)[1].fillStyle = jobs[j].cfg.baseColor
                   /\ Ops(j)[1].clip = <<>>

\* a finished composite whose front image was rejected and which drew the
\* front text, the back image and the back text
C9_Witness ==
    \E j \in JobIds :
        /\ jobs[j].pc = "done"
        /\ jobs[j].loadFailed = {1}
        /\ HasImage(jobs[j].cfg.front)
        /\ DrawsOf(j, 1, "drawImage") = {}
        /\ DrawsOf(j, 1, "fillText") # {}
        /\ DrawsOf(j, 2, "drawImage") # {}
        /\ DrawsOf(j, 2, "fillText") # {}


-----------------------------------------------------------------------------
(* Properties of the texture updates                                       *)

Applied == viewer.applied

\* the request of the applied texture n was started after that of the
\* applied texture o, while that was waiting for an image to load
Supersedes(n, o) == o.job < n.job /\ o.job \in n.overlapped

\* C10 as claimed: when a newer update request b starts while an older one a
\* is still decoding images, the result of a is never set on the viewer's
\* material after the result of b has been; so once b's result has been set
\* the texture last set is not that of a request b superseded.
C10_Claimed_NoStaleApply ==
    /\ \A p, q \in 1..Len(Applied) :
           p < q => ~Supersedes(Applied[p], Applied[q])
    /\ \A p \in 1..Len(Applied) :
           ~Supersedes(Applied[p], Applied[Len(Applied)])

-----------------------------------------------------------------------------
(* Properties of the debounced update                                      *)

\* the viewer of the current session has not finished loading: the timer of
\* the initialisation effect is set or initialize() is in flight, or the
\* loading flag is still set
ViewerLoading == isLoading \/ init.pc = "timer" \/ InitInFlight

\* the coalescing part of C11: the one pending timer is that of the latest
\* config, and it is pending only with a session and with the flag cleared
C11_Coalesced ==
    debounce.pending =>
        debounce.cfg = config /\ session = "user" /\ ~isLoading

\* C11 as claimed: config changes are coalesced, the pending timer being that
\* of the last change, and a debounced compositor pass starts only for the
\* latest config, with a session, and not while the viewer is still loading.
C11_Claimed_PassOnlyWhenLoaded ==
    /\ []C11_Coalesced
    /\ [][debounceTimer =>
              debounce.cfg = config /\ session = "user" /\ ~ViewerLoading]_vars

-----------------------------------------------------------------------------
(* Properties of the deletion                                              *)

\* generateTexture is called for request j in this step and the request is
\* still under way after it
Starts(j) == jobs[j].pc = "idle" /\ jobs'[j].pc # "idle" /\ ~Returned(jobs'[j])

\* the elements that cfg has and the current config has not
Residual(cfg, current) ==
    {e \in Sides \X Elems :
        Present(cfg[e[1]], e[2]) /\ ~Present(current[e[1]], e[2])}

\* the debounced part of C13: the composite the debounce timer starts is
\* computed from the current config
C13_DebouncedFromCurrent ==
    [][debounceTimer => \A j \in JobIds : Starts(j) => jobs'[j].cfg = config]_vars

\* C13 as claimed: a deleted element is absent from the live renderer at once
\* and absent from every composite started afterwards until it is added
\* again, so a composite that starts contains no element that the current
\* config does not have.
C13_Claimed_NoResidualElement ==
    /\ [][\A side \in Sides, type \in Elems :
              InApp(~isDragging /\ handleDelete) /\ activeSide = side
                  /\ activeElement = type
              => ~Present(config'[side], type)]_vars
    /\ [][\A j \in JobIds :
              Starts(j) => Residual(jobs'[j].cfg, config') = {}]_vars

-----------------------------------------------------------------------------
(* Properties of the sessions                                              *)

\* C15 as claimed: the configuration is created with the defaults at session
\* start and discarded at session end, so at every sign-in (the session
\* becoming a user's, also after a sign-out) the configuration is the
\* initial default configuration.
C15_Claimed_DefaultsAtSignIn ==
    [][session = "null" /\ session' = "user" => config' = INITIAL_STATE]_vars

-----------------------------------------------------------------------------
(* Properties of the export                                                *)

Downloads == {j \in JobIds : jobs[j].purpose = "download"}

\* the download button is shown and the bounds leave room for a request
CanDownload ==
    /\ session = "user" /\ ~authLoading
    /\ Cardinality(Downloads) < MaxDownloads
    /\ \E j \in JobIds : jobs[j].pc = "idle"

\* C16: in every viewer state a download can be requested; the request runs
\* generateTexture once on the current config and changes neither the
\* config nor the service, the viewer, the initialisation, the debounce
\* timer or another request; a download is never at a viewer call and its
\* result is never applied to the viewer; once its bitmap has been offered
\* it is not composited again (the request stays as it ended until the page
\* is reloaded).
C16_ExportIndependent ==
    /\ [](CanDownload => ENABLED handleDownload)
    /\ [](\A j \in Downloads :
              /\ jobs[j].pc \in {"frontImage", "backImage", "done", "failed"}
              /\ \A p \in 1..Len(Applied) : Applied[p].job # j)
    /\ [][handleDownload =>
              /\ \E j \in JobIds :
                     /\ jobs[j].pc = "idle"
                     /\ jobs'[j].purpose = "download"
                     /\ jobs'[j].cfg = config
                     /\ \A i \in JobIds \ {j} : jobs'[i] = jobs[i]
              /\ config' = config
              /\ <<service, viewer, init, debounce, isUpdatingTexture,
                    isLoading, error>>' =
                 <<service, viewer, init, debounce, isUpdatingTexture,
                   isLoading, error>>]_vars
    /\ [][\A j \in Downloads :
              jobs[j].pc \in {"done", "failed"} =>
                  jobs'[j] = jobs[j] \/ reloadPage]_vars

\* a download of an edited configuration was composited and offered before
\* the viewer had finished initialising
C16_Witness ==
    \E j \in Downloads :
        /\ jobs[j].pc = "done"
        /\ jobs[j].cfg = config /\ config # INITIAL_STATE
        /\ Len(Ops(j)) > 0
        /\ isLoading /\ init.pc = "polling" /\ ~service.api

\* downloads offered with the initialisation failed, with the viewer ready,
\* and with a texture update in flight
C16_WitnessFailed ==
    \E j \in Downloads :
        jobs[j].pc = "done" /\ init.pc = "rejected" /\ error /\ j = 1

C16_WitnessReady ==
    \E j \in Downloads :
        jobs[j].pc = "done" /\ init.pc = "resolved" /\ service.api /\ j > 1

C16_WitnessInFlight ==
    \E j \in Downloads, i \in JobIds :
        /\ jobs[j].pc = "done" /\ i < j
        /\ jobs[i].purpose = "update"
        /\ jobs[i].pc \in {"findMaterial", "addTexture", "getMaterialList",
                            "setMaterial"}

-----------------------------------------------------------------------------
(* Properties of a failed texture update                                   *)

\* the catch of triggerTextureUpdate runs for request j in this step
CatchStep(j) == ~Returned(jobs[j]) /\ jobs'[j].pc = "caught"

\* C17: when generateTexture throws or updateTexture rejects inside a
\* texture update, the step that catches it leaves the config, the editor
\* and gesture state, the session and the error notice unchanged and resets
\* isUpdatingTexture; whatever failed before, a change of config in a loaded
\* session sets the debounce timer for the new config, and a pending
\* timer can fire and request a new update.
C17_FailureCaught ==
    /\ [][\A j \in JobIds : CatchStep(j) =>
              /\ jobs'[j].purpose = "update"
              /\ gvars' = gvars
              /\ session' = session /\ error' = error
              /\ isUpdatingTexture' = FALSE]_vars
    /\ [][config' # config /\ session' = "user" /\ ~isLoading' =>
              debounce' = [pending |-> TRUE, cfg |-> config']]_vars
    /\ [](debounce.pending /\ init.pc # "timer"
              /\ (\E j \in JobIds : jobs[j].pc = "idle")
          => ENABLED debounceTimer)

\* an update was caught after a failure, the config was then changed, and the
\* update requested for it is under way with the flag set again
C17_Witness ==
    \E i, j \in JobIds :
        /\ i < j
        /\ jobs[i].pc = "caught"
        /\ jobs[j].purpose = "update" /\ jobs[j].pc = "setMaterial"
        /\ jobs[j].cfg = config /\ config # INITIAL_STATE
        /\ \E p \in 1..Len(Applied) : Applied[p].job = j
        /\ \A k \in JobIds \ {j} : jobs[k].pc = "idle" \/ Returned(jobs[k])
        /\ isUpdatingTexture

-----------------------------------------------------------------------------
(* Properties of the viewer initialisation                                 *)

\* C18: initialize makes its first check and at most MaxAttempts further
\* checks, each set by a timer after a check that found no SDK; the check
\* after the last timer finds the SDK or rejects, so the polling ends; a
\* rejection clears isLoading and sets the error that shows the overlay
\* with the reload button; the polling starts only from the timer of a
\* session's init effect, never again after a rejection or after the SDK
\* was found.
C18_BoundedPolling ==
    /\ [](init.pc = "polling" =>
              init.attempts >= 1 /\ init.attempts <= MaxAttempts)
    /\ [][init.pc = "polling" /\ init'.pc = "polling" /\ init' # init =>
              init'.attempts = init.attempts + 1]_vars
    /\ [][init'.pc = "polling" => init.pc \in {"timer", "polling"}]_vars
    /\ [][init'.pc = "rejected" /\ init.pc # "rejected" =>
              ~isLoading' /\ error']_vars
    /\ [](init.pc = "rejected" =>
              ~isLoading /\ error /\ (session = "user" => ENABLED reloadPage))
    /\ (init.pc = "polling" ~> init.pc # "polling")

\* the SDK was absent at the first check and at all MaxAttempts further
\* ones: initialize rejected and the error overlay replaced the loading one
C18_Witness ==
    /\ init.pc = "rejected"
    /\ init.attempts = MaxAttempts + 1
    /\ error /\ ~isLoading
    /\ service.current /\ ~service.api

-----------------------------------------------------------------------------
(* Properties of the compositor as a function                              *)

\* generateTexture(cfg) run to its end with the loadImage of the calls in
\* failed rejected and the others resolved
RECURSIVE Run(_, _)
Run(job, failed) ==
    IF job.pc \in {"frontImage", "backImage"}
    THEN Run(IF WaitingCall(job) \in failed
             THEN ImageRejected(job)
             ELSE ImageResolved(job,
                      Decoded(ViewOf(job.cfg, WaitingCall(job)).image.src)),
             failed)
    ELSE job

\* the composite of request j is complete: its bitmap was offered for
\* download or is at the viewer
Composited(j) ==
    jobs[j].pc \in {"done", "findMaterial", "addTexture", "getMaterialList",
                    "setMaterial"}

-----------------------------------------------------------------------------
(* Properties of a missing drawing context                                 *)

\* generateTexture is called for request j in this step and throws at once:
\* getContext('2d') returned null
NoContextStep(j) ==
    jobs[j].pc = "idle" /\ jobs'[j].pc \in {"failed", "caught"}

\* the composite part of C20: a call without a context ends failed, with
\* nothing drawn and no bitmap offered
C20_FailsBeforeDrawing ==
    \A j \in JobIds : jobs[j].pc = "failed" => Ops(j) = <<>>

\* C20 as claimed: without a 2D context the composite fails before anything
\* is drawn, and the caller, texture update or download, presents a notice:
\* the step in which the call throws leaves the App with its user-visible
\* error set.
C20_Claimed_NoContextNotice ==
    /\ []C20_FailsBeforeDrawing
    /\ [][\A j \in JobIds : NoContextStep(j) => error']_vars

-----------------------------------------------------------------------------
(* Properties of the pointer handlers                                      *)

\* the pivot of the running gesture, in pixels inside the container: the
\* element's percentage position times the container's size at gesture start
PivotX ==
    RDiv(RMul(hist.begin.transform.x, hist.begin.rect.width), Q(100))

PivotY ==
    RDiv(RMul(hist.begin.transform.y, hist.begin.rect.height), Q(100))

\* the container was given another size between gesture start and the last
\* pointer-move
ResizedSinceBegin ==
    /\ hist.rect.width # hist.begin.rect.width
    /\ hist.rect.height # hist.begin.rect.height

\* C21: the pivot of a scale or rotate gesture is the element's percentage
\* position times the container's size at gesture start; it is computed
\* once, stays what it was when the container is resized during the
\* gesture, and is the pivot every pointer-move of the gesture measures
\* the distance and the angle from (placed at the container's current
\* origin).
C21_PivotFixed ==
    /\ hist.begin.type # "none" =>
           dragRef.centerX = PivotX /\ dragRef.centerY = PivotY
    /\ MovedBy("scale") =>
           LET d0 == BeginDistance
               d1 == AxisDistance(RAdd(hist.rect.left, PivotX),
                                  RAdd(hist.rect.top, PivotY), hist.x, hist.y)
           IN  GestureTransform.scale =
                   Clamp(RDiv(RMul(hist.begin.transform.scale, d1),
                              IF d0 = Q(0) THEN Q(1) ELSE d0),
                         Frac(1, 10), Q(5))
    /\ MovedBy("rotate") =>
           LET a0 == AxisAngleDeg(BeginCentreX, BeginCentreY,
                                  hist.begin.x, hist.begin.y)
               a1 == AxisAngleDeg(RAdd(hist.rect.left, PivotX),
                                  RAdd(hist.rect.top, PivotY), hist.x, hist.y)
           IN  GestureTransform.rotation =
                   JSRem(RAdd(hist.begin.transform.rotation, RSub(a1, a0)),
                         Q(360))

\* C21 witness: a mouse scale gesture was begun, the container was then
\* resized, and a pointer-move changed the scale measuring from the pivot
\* of the gesture start, which is not where the element's centre is in
\* the resized container.
C21_Witness ==
    /\ MovedBy("scale")
    /\ hist.op = "mouseMove"
    /\ ResizedSinceBegin
    /\ PivotX # RDiv(RMul(hist.begin.transform.x, hist.rect.width), Q(100))
    /\ dragRef.centerX = PivotX
    /\ GestureTransform.scale # hist.begin.transform.scale

\* the position a pointer-move of a move gesture gives when the pointer's
\* displacement since gesture start is taken relative to a container of
\* the given width and height
MovedWithin(width, height) ==
    [x |-> Clamp(RAdd(hist.begin.transform.x,
                      RDiv(RMul(Q(100), RSub(hist.x, hist.begin.x)), width)),
                 Q(0), Q(100)),
     y |-> Clamp(RAdd(hist.begin.transform.y,
                      RDiv(RMul(Q(100), RSub(hist.y, hist.begin.y)), height)),
                 Q(0), Q(100))]

\* C22: a pointer-move of a move gesture converts the pointer's
\* displacement to percent with the container's width and height as they
\* are at that pointer-move, not as they were at gesture start.
C22_SizeAtEachMove ==
    MovedBy("move") =>
        /\ GestureTransform.x = MovedWithin(hist.rect.width, hist.rect.height).x
        /\ GestureTransform.y = MovedWithin(hist.rect.width, hist.rect.height).y

\* C22 witness: the container was resized during a mouse move gesture and
\* the pointer-move put the element where the new size puts it, which is
\* not where the size of the gesture start would have put it.
C22_Witness ==
    /\ MovedBy("move")
    /\ hist.op = "mouseMove"
    /\ ResizedSinceBegin
    /\ GestureTransform.x = MovedWithin(hist.rect.width, hist.rect.height).x
    /\ GestureTransform.x #
           MovedWithin(hist.begin.rect.width, hist.begin.rect.height).x
    /\ GestureTransform.y #
           MovedWithin(hist.begin.rect.width, hist.begin.rect.height).y

\* the container of the running gesture zoomed uniformly by two, somewhere
\* else on the page
ZoomedRect ==
    [left |-> Q(8), top |-> Q(64),
     width |-> RMul(Q(2), hist.begin.rect.width),
     height |-> RMul(Q(2), hist.begin.rect.height)]

\* the pointer position in the zoomed container at the same relative place
ZoomedX(x) ==
    RAdd(ZoomedRect.left, RMul(Q(2), RSub(x, hist.begin.rect.left)))

ZoomedY(y) ==
    RAdd(ZoomedRect.top, RMul(Q(2), RSub(y, hist.begin.rect.top)))

\* the scale the handlers give for the gesture start and the pointer-move
\* of the running gesture replayed in the zoomed container
ZoomedScale ==
    LET ref == DragSnapshot(hist.begin.transform, ZoomedX(hist.begin.x),
                            ZoomedY(hist.begin.y), ZoomedRect)
    IN  IF hist.op = "mouseMove"
        THEN MouseScaleUpdate(ref, ZoomedRect,
                              ZoomedX(hist.x), ZoomedY(hist.y)).scale
        ELSE TouchScaleUpdate(ref, ZoomedRect,
                              ZoomedX(hist.x), ZoomedY(hist.y)).scale

\* a pointer-move of a scale gesture was applied in the 300x300 container,
\* which kept its box during the gesture
ScaledIn300 ==
    /\ MovedBy("scale")
    /\ hist.begin.rect.width = Q(300) /\ hist.begin.rect.height = Q(300)
    /\ hist.rect = hist.begin.rect

\* C23 as claimed: the same relative element position and the same
\* relative pointer placements at gesture start and at the pointer-move
\* give the same scale in a 300x300 and in a 600x600 container.
C23_Claimed_ZoomInvariant ==
    ScaledIn300 => GestureTransform.scale = ZoomedScale

\* C23 amended: they give the same scale in a 300x300 and in a 600x600
\* container whenever the gesture did not start with the pointer exactly
\* on the element's centre.
C23_ZoomInvariantOffCentre ==
    (ScaledIn300 /\ BeginDistance # Q(0)) =>
        GestureTransform.scale = ZoomedScale

\* C23 witness: a scale gesture begun half a pixel from the centre in the
\* 300x300 container doubled the scale, as it does one and two pixels from
\* the centre in the 600x600 container.
C23_Witness ==
    /\ ScaledIn300
    /\ BeginDistance = Frac(1, 2)
    /\ hist.begin.transform.scale = Q(1)
    /\ GestureTransform.scale = Q(2)
    /\ ZoomedScale = Q(2)

\* the z-index class of an element's layer: z-30 / z-20 for the image,
\* z-40 / z-30 for the text
LayerZIndex(type) ==
    IF type = "image" THEN (IF activeElement = "image" THEN 30 ELSE 20)
    ELSE (IF activeElement = "text" THEN 40 ELSE 30)

\* the place of an element's layer among the children of the container
LayerTreeOrder(type) == IF type = "image" THEN 1 ELSE 2

\* both layers are positioned children of the container: the higher
\* z-index is painted above, and of two equal ones the later in the tree
StackedAbove(a, b) ==
    \/ LayerZIndex(a) > LayerZIndex(b)
    \/ LayerZIndex(a) = LayerZIndex(b) /\ LayerTreeOrder(a) > LayerTreeOrder(b)

OtherElement(type) == IF type = "image" THEN "text" ELSE "image"

BothRendered ==
    Present(config[activeSide], "image") /\ Present(config[activeSide], "text")

\* C24 as claimed: whenever both elements are present and one of them is
\* selected, the selected one is stacked strictly above the other.
C24_Claimed_ActiveTopmost ==
    (BothRendered /\ activeElement # "none") =>
        StackedAbove(activeElement, OtherElement(activeElement))

\* what holds instead: whenever both elements are present the text is
\* stacked above the image, whichever is selected.
C24_TextAboveImage ==
    BothRendered => StackedAbove("text", "image")

\* a state in which the selected image is rendered together with the text
C24_ImageSelectedWithText ==
    BothRendered /\ activeElement = "image"

\* the pointer's distance from the pivot at the last pointer-move
CurrentDistance ==
    AxisDistance(RAdd(hist.rect.left, PivotX), RAdd(hist.rect.top, PivotY),
                 hist.x, hist.y)

\* C25: when a scale gesture started with the pointer exactly on the
\* element's centre the snapshot holds the initial distance 0, and a
\* pointer-move of the gesture gives the finite scale
\* clamp(initialScale * currentDistance, 0.1, 5): the distance is treated
\* as 1 and nothing is divided by zero.
C25_ZeroDistanceAsOne ==
    (MovedBy("scale") /\ BeginDistance = Q(0)) =>
        /\ dragRef.initialDistance = Q(0)
        /\ GestureTransform.scale =
               Clamp(RMul(hist.begin.transform.scale, CurrentDistance),
                     Frac(1, 10), Q(5))
        /\ IsFinite(GestureTransform.scale)
        /\ RLe(Frac(1, 10), GestureTransform.scale)
        /\ RLe(GestureTransform.scale, Q(5))

\* C25 witness: a mouse scale gesture begun on the centre of an element of
\* scale 2, the pointer then a pixel away, left the scale at 2 * 1.
C25_Witness ==
    /\ MovedBy("scale")
    /\ hist.op = "mouseMove"
    /\ BeginDistance = Q(0)
    /\ CurrentDistance = Q(1)
    /\ hist.begin.transform.scale = Q(2)
    /\ GestureTransform.scale = Q(2)

\* C25 witness: begun on the centre, the pointer then half a pixel away,
\* the scale of 1 was halved, not clamped.
C25_WitnessHalf ==
    /\ MovedBy("scale")
    /\ BeginDistance = Q(0)
    /\ CurrentDistance = Frac(1, 2)
    /\ hist.begin.transform.scale = Q(1)
    /\ GestureTransform.scale = Frac(1, 2)

\* C26: the end of an interaction clears the dragging flag and the
\* interaction kind and leaves the whole configuration and the selection
\* as they are; a click on the empty canvas area clears the active element
\* and leaves the whole configuration, the dragging flag and the
\* interaction kind as they are.
C26_EndAndDeselectFrame ==
    [][/\ InEditor(handleMouseUp) =>
            /\ ~isDragging' /\ interactionType' = "none"
            /\ config' = config
            /\ activeElement' = activeElement
            /\ activeSide' = activeSide
       /\ InEditor(deselect) =>
            /\ activeElement' = "none"
            /\ config' = config
            /\ activeSide' = activeSide
            /\ isDragging' = isDragging
            /\ interactionType' = interactionType]_vars

\* C26 witness: a gesture changed the element's transform, the interaction
\* was ended, the element was deselected, and the transform is still the
\* one the gesture gave.
C26_Witness ==
    /\ hist.begin.type # "none"
    /\ moves > 0
    /\ ~isDragging /\ interactionType = "none"
    /\ activeElement = "none"
    /\ GestureTransform # hist.begin.transform

\* C26 witness: after the end of the interaction the element is still
\* selected and keeps the transform the gesture gave.
C26_WitnessEnded ==
    /\ hist.begin.type # "none"
    /\ moves > 0
    /\ ~isDragging /\ interactionType = "none"
    /\ activeElement = hist.begin.type
    /\ GestureTransform # hist.begin.transform

\* C27: while no interaction is active (before the first begin and after
\* every end) no move listener is on the window, so no pointer-move
\* handler can run and no transform or selection changes through one;
\* a pointer-move handler has only ever run, and only ever updated a
\* transform, during an interaction.
C27_NoMoveWithoutInteraction ==
    /\ ~isDragging =>
           /\ ~ENABLED InEditor(handleMouseMove)
           /\ ~ENABLED InEditor(handleTouchMove)
    /\ hist.op \in {"mouseMove", "touchMove"} =>
           /\ isDragging
           /\ hist.applied =>
                  activeElement # "none" /\ interactionType # "none"

\* C27 witness: an interaction was begun and ended without a pointer-move;
\* the element is still selected, the snapshot of the ended gesture is
\* still in dragRef and a further pointer-move would be within the bound,
\* and yet no pointer-move handler can run.
C27_Witness ==
    /\ ~isDragging
    /\ hist.begin.type # "none"
    /\ activeElement = hist.begin.type
    /\ dragRef.initialTransform = hist.begin.transform
    /\ containerMounted
    /\ moves < MaxMoves
    /\ ~ENABLED InEditor(handleMouseMove)
    /\ ~ENABLED InEditor(handleTouchMove)

\* a begin handler has just returned at its check of the container ref
BeginDropped == hist.op = "beginDropped"

\* C28: a press or touch on an element or handle while the container ref
\* is not available is dropped: the selection, the dragging flag, the
\* interaction kind, the snapshot and the configuration all stay as they
\* were.
C28_BeginDroppedWithoutContainer ==
    [][(~containerMounted
          /\ (InEditor(handleMouseDown) \/ InEditor(handleTouchStart))) =>
            /\ BeginDropped'
            /\ activeElement' = activeElement
            /\ isDragging' = isDragging
            /\ interactionType' = interactionType
            /\ dragRef' = dragRef
            /\ config' = config
            /\ activeSide' = activeSide]_vars

\* C28 witness: the text was pressed while the container ref was not
\* available; nothing is selected, nothing is dragged and no snapshot was
\* taken.
C28_Witness ==
    /\ BeginDropped
    /\ ~containerMounted
    /\ activeElement = "none"
    /\ ~isDragging /\ interactionType = "none"
    /\ dragRef = DragRefInit
    /\ hist.begin.type = "none"

\* the scale and the rotation a pointer-move gives, measured from the
\* pivot of the latest begin placed at the container's current origin
ScaleFromPivot ==
    Clamp(RDiv(RMul(hist.begin.transform.scale, CurrentDistance),
               IF BeginDistance = Q(0) THEN Q(1) ELSE BeginDistance),
          Frac(1, 10), Q(5))

RotationFromPivot ==
    JSRem(RAdd(hist.begin.transform.rotation,
               RSub(AxisAngleDeg(RAdd(hist.rect.left, PivotX),
                                 RAdd(hist.rect.top, PivotY), hist.x, hist.y),
                    AxisAngleDeg(BeginCentreX, BeginCentreY,
                                 hist.begin.x, hist.begin.y))),
          Q(360))

\* a begin handler runs with the container available while the prior
\* interaction has not ended
BeginAgain ==
    /\ isDragging /\ containerMounted
    /\ InEditor(handleMouseDown) \/ InEditor(handleTouchStart)

\* after a begin that replaced a running session the snapshot is the one
\* of that begin, and a pointer-move was computed from it and applied to
\* that begin's element
LatestSessionOnly ==
    hist.again =>
        /\ dragRef = DragSnapshot(hist.begin.transform, hist.begin.x,
                                  hist.begin.y, hist.begin.rect)
        /\ MovedBy("move") =>
               /\ GestureTransform.x =
                      MovedWithin(hist.rect.width, hist.rect.height).x
               /\ GestureTransform.y =
                      MovedWithin(hist.rect.width, hist.rect.height).y
        /\ MovedBy("scale") => GestureTransform.scale = ScaleFromPivot
        /\ MovedBy("rotate") => GestureTransform.rotation = RotationFromPivot
        /\ (hist.op \in {"mouseMove", "touchMove"} /\ hist.applied) =>
               /\ activeElement = hist.begin.type
               /\ interactionType = hist.begin.kind

\* C29: a begin handler called before the prior interaction has ended
\* replaces the session: the snapshot (start pointer, initial transform,
\* centre, initial distance and angle), the active element and the
\* interaction kind are those of the latest call and no transform changes;
\* every later pointer-move is computed from that snapshot alone and
\* applied to the latest call's element alone (in every state a step
\* leaves, and a step leaves every state).
C29_BeginReplacesSession ==
    [][/\ BeginAgain =>
            /\ hist'.again
            /\ isDragging'
            /\ activeElement' = hist'.begin.type
            /\ interactionType' = hist'.begin.kind
            /\ dragRef' = DragSnapshot(
                              config[activeSide][hist'.begin.type].transform,
                              hist'.begin.x, hist'.begin.y, containerRect)
            /\ hist'.begin.transform =
                   config[activeSide][hist'.begin.type].transform
            /\ config' = config
       /\ LatestSessionOnly]_vars

\* C29 witness: a scale gesture was begun while the gesture that selected
\* the element was still running, and the touch-move after it changed the
\* scale as the snapshot of the scale gesture's start gives it.
C29_Witness ==
    /\ hist.again
    /\ MovedBy("scale")
    /\ hist.op = "touchMove"
    /\ isDragging
    /\ GestureTransform.scale = ScaleFromPivot
    /\ GestureTransform.scale # hist.begin.transform.scale
    /\ GestureTransform.x = hist.begin.transform.x
    /\ GestureTransform.y = hist.begin.transform.y

\* the transform fields a gesture of the kind writes
FieldsOf(kind) ==
    CASE kind = "move"   -> {"x", "y"}
      [] kind = "scale"  -> {"scale"}
      [] OTHER           -> {"rotation"}

\* a pointer-move handler runs and updates a transform
AppliedMove ==
    /\ InEditor(handleMouseMove) \/ InEditor(handleTouchMove)
    /\ hist'.applied

\* C30: a pointer-move of a gesture changes only the transform of the
\* element named at gesture start, on the active side, and of it only the
\* fields of the gesture's kind (x and y for a move, scale for a scale,
\* rotation for a rotate); the other element, both elements' content,
\* source, colour and font, the other side and the base colour are
\* unchanged.
C30_OneElementOneKind ==
    [][AppliedMove =>
          LET side == hist.begin.side
              type == hist.begin.type
          IN  /\ side = activeSide /\ type = activeElement
              /\ interactionType = hist.begin.kind
              /\ \A f \in {"x", "y", "scale", "rotation"} \ FieldsOf(interactionType) :
                     config'[side][type].transform[f] =
                         config[side][type].transform[f]
              /\ [config'[side][type] EXCEPT !.transform = 0] =
                     [config[side][type] EXCEPT !.transform = 0]
              /\ config'[side][OtherElement(type)] =
                     config[side][OtherElement(type)]
              /\ config'[OtherSide(side)] = config[OtherSide(side)]
              /\ config'.baseColor = config.baseColor
              /\ activeElement' = activeElement
              /\ activeSide' = activeSide]_vars

\* C30 witness: with an image and a text on the side, a pointer-move of a
\* scale gesture on the text changed its scale and left its position and
\* rotation, which are not those of a new element, as they were.
C30_Witness ==
    /\ MovedBy("scale")
    /\ BothRendered
    /\ hist.begin.type = "text"
    /\ GestureTransform.scale # hist.begin.transform.scale
    /\ GestureTransform.x = hist.begin.transform.x
    /\ GestureTransform.y = hist.begin.transform.y
    /\ GestureTransform.rotation = hist.begin.transform.rotation
    /\ GestureTransform.x # Q(0)
    /\ GestureTransform.rotation # Q(0)

-----------------------------------------------------------------------------
(* Properties of the stored configuration                                  *)

\* initialRotation + delta of the last pointer-move of a rotate gesture,
\* in degrees
RotationSum ==
    RAdd(hist.begin.transform.rotation,
         RSub(AxisAngleDeg(BeginCentreX, BeginCentreY, hist.x, hist.y),
              AxisAngleDeg(BeginCentreX, BeginCentreY,
                           hist.begin.x, hist.begin.y)))

\* C31: every transform's rotation r satisfies -360 < r < 360 in every
\* state, and a pointer-move of a rotate gesture whose sum
\* initialRotation + delta is negative stores the remainder with the sign
\* of the sum (a negative value, or 0 for a multiple of 360), never a
\* value normalised to [0, 360).
C31_RotationSignedRemainder ==
    /\ \A side \in Sides, type \in Elems :
           /\ RLt(Q(-360), config[side][type].transform.rotation)
           /\ RLt(config[side][type].transform.rotation, Q(360))
    /\ (MovedBy("rotate") /\ RLt(RotationSum, Q(0))) =>
           /\ RLe(GestureTransform.rotation, Q(0))
           /\ GestureTransform.rotation = JSRem(RotationSum, Q(360))
           /\ JSRem(RotationSum, Q(360)) # Q(0) =>
                  RLt(GestureTransform.rotation, Q(0))

\* C31 witness: a rotate gesture on an element of rotation -90 turned it a
\* further quarter turn back and the stored rotation is -180, not 180.
C31_Witness ==
    /\ MovedBy("rotate")
    /\ hist.begin.transform.rotation = Q(-90)
    /\ RotationSum = Q(-180)
    /\ GestureTransform.rotation = Q(-180)

\* the branches of the configuration a step replaces
ChangedBranches ==
    {b \in {"front", "back", "baseColor"} : config'[b] # config[b]}

\* C32: every update of the configuration replaces one branch of the
\* latest configuration: a step changes at most one of front, back and
\* base colour; an update of a side (pointer-move, text edit, upload,
\* delete) gives the latest configuration with only that element of that
\* side replaced, a base-colour change the latest configuration with only
\* the base colour replaced; so of two updates in sequence neither is
\* lost.
C32_CopyOnWrite ==
    [][/\ Cardinality(ChangedBranches) <= 1
       /\ WhileIdle(setBaseColor) =>
              \E c \in Colours : config' = [config EXCEPT !.baseColor = c]
       /\ handleTextChange =>
              \E e \in TextEdits :
                  config' = [config EXCEPT
                                ![activeSide].text[e.field] = e.value]
       /\ AppReaderOnLoad =>
              \E u \in uploads :
                  config' = [config EXCEPT
                                ![u.side].image.src = u.src,
                                ![u.side].image.transform =
                                    Transform(Q(50), Q(50), Q(1), Q(0))]
       /\ InApp(handleDelete) =>
              \/ config' = [config EXCEPT ![activeSide].image.src = NoSrc]
              \/ config' = [config EXCEPT ![activeSide].text.content = ""]
       /\ InApp(handleMouseMove) =>
              \/ config' = config
              \/ /\ activeElement # "none"
                 /\ config' = [config EXCEPT
                        ![effectSide][activeElement].transform =
                            config'[effectSide][activeElement].transform]
       /\ (InApp(handleMouseDown) \/ InApp(handleMouseUp)
             \/ InApp(handleSideChange) \/ InApp(handleImageUpload)) =>
              config' = config]_vars

\* C32 witness: the base colour was changed, the front text was moved by a
\* gesture and an image was uploaded to the back, and the configuration
\* shows all three.
C32_Witness ==
    /\ config.baseColor # INITIAL_STATE.baseColor
    /\ config.front.text.transform # INITIAL_STATE.front.text.transform
    /\ config.front.text.content = INITIAL_STATE.front.text.content
    /\ HasImage(config.back)
    /\ ~HasImage(config.front)

\* C32 witness: a text edit and a gesture on the same side, one after the
\* other, are both in the configuration.
C32_WitnessSameSide ==
    /\ config.front.text.color # INITIAL_STATE.front.text.color
    /\ config.front.text.transform # INITIAL_STATE.front.text.transform
    /\ HasImage(config.front)

-----------------------------------------------------------------------------
(* Properties of the App's requests                                        *)

\* the composite of request j waits for an image to load
Waiting(j) == jobs[j].pc \in {"frontImage", "backImage"}

\* the side of the snapshot of request j that a drawView call draws
SnapshotView(j, call) ==
    IF call = 1 THEN jobs[j].cfg.front ELSE jobs[j].cfg.back

\* the finished composite of request j is the composite of its snapshot:
\* the fill in the snapshot's base colour, and in each half the image and
\* the text of the snapshot's side for that half, placed by its transforms
CompositeOfSnapshot(j) ==
    jobs[j].pc = "done" =>
        /\ Ops(j)[1].op = "fillRect"
        /\ Ops(j)[1].fillStyle = jobs[j].cfg.baseColor
        /\ \A call \in {1, 2} :
               LET view == SnapshotView(j, call)
                   a == ViewArea(call)
               IN  /\ Cardinality(DrawsOf(j, call, "drawImage")) =
                          IF HasImage(view) /\ call \notin jobs[j].loadFailed
                          THEN 1 ELSE 0
                   /\ Cardinality(DrawsOf(j, call, "fillText")) =
                          IF HasText(view) THEN 1 ELSE 0
                   /\ \A i \in DrawsOf(j, call, "drawImage") :
                          LET t == view.image.transform
                              c == RegionCentre(a, t)
                          IN  /\ Ops(j)[i].what = view.image.src
                              /\ Ops(j)[i].w =
                                     RMul(RMul(Frac(1, 2), a.width), t.scale)
                              /\ Ops(j)[i].tf =
                                     AboutCentre(c.x, c.y, t.rotation)
                   /\ \A i \in DrawsOf(j, call, "fillText") :
                          LET t == view.text.transform
                              c == RegionCentre(a, t)
                          IN  /\ Ops(j)[i].what = view.text.content
                              /\ Ops(j)[i].fillStyle = view.text.color
                              /\ Ops(j)[i].font.family = view.text.fontFamily
                              /\ Ops(j)[i].font.px =
                                     RMul(RDiv(RMul(view.text.fontSize,
                                                    a.width), Q(100)), t.scale)
                              /\ Ops(j)[i].tf =
                                     AboutCentre(c.x, c.y, t.rotation)

\* C33: every composite works on the one snapshot it was invoked with:
\* while a composite waits for an image to load a running gesture can be
\* released and the base colour changed as at any other time, the
\* configuration can have moved away from the snapshot, and the finished
\* bitmap is the composite of the snapshot (base colour, front and back
\* all from it), whatever the configuration has become.
C33_CompositeOfOneSnapshot ==
    /\ \A j \in JobIds : CompositeOfSnapshot(j)
    /\ (\E j \in JobIds : Waiting(j)) =>
           /\ isDragging => ENABLED InApp(handleMouseUp)
           /\ (~isDragging /\ edits < MaxEdits) =>
                  ENABLED WhileIdle(setBaseColor)

\* C33 witness: a composite that waited for the front image is finished,
\* with the image drawn, and the configuration now has another base
\* colour and another text transform than its snapshot.
C33_Witness ==
    \E j \in JobIds :
        /\ jobs[j].pc = "done"
        /\ DrawsOf(j, 1, "drawImage") # {}
        /\ config.baseColor # jobs[j].cfg.baseColor
        /\ config.front.text.transform # jobs[j].cfg.front.text.transform
        /\ Ops(j)[1].fillStyle = jobs[j].cfg.baseColor

\* C33 witness: while a composite waits for the front image a gesture has
\* moved the text and the base colour was changed.
C33_WitnessWaiting ==
    \E j \in JobIds :
        /\ Waiting(j)
        /\ isDragging /\ moves > 0
        /\ hist.op = "mouseMove" /\ hist.applied
        /\ config.baseColor # jobs[j].cfg.baseColor
        /\ config.front.text.transform # jobs[j].cfg.front.text.transform

-----------------------------------------------------------------------------
(* C34: the transform of a gesture as a function of the snapshot and the   *)
(* pointer                                                                 *)

\* what the snapshot taken at gesture start and the pointer position of the
\* last pointer-move give, whatever the pointer-moves before it
TransformOfPointer ==
    CASE hist.begin.kind = "move" ->
            [hist.begin.transform EXCEPT
                !.x = MovedWithin(hist.begin.rect.width,
                                  hist.begin.rect.height).x,
                !.y = MovedWithin(hist.begin.rect.width,
                                  hist.begin.rect.height).y]
      [] hist.begin.kind = "scale" ->
            [hist.begin.transform EXCEPT !.scale = ScaleFromPivot]
      [] OTHER ->
            [hist.begin.transform EXCEPT !.rotation = RotationFromPivot]

AnyMove == hist.op = "mouseMove" /\ hist.applied

\* the last pointer-move had the pointer where the gesture started
ReturnedToStart ==
    /\ AnyMove
    /\ hist.x = hist.begin.x /\ hist.y = hist.begin.y

\* the gesture is a scale gesture begun with the pointer on the element's
\* centre
ScaleFromCentre == hist.begin.kind = "scale" /\ BeginDistance = Q(0)

\* C34 as claimed: within one gesture in a fixed container the transform
\* after a pointer-move is a function of the snapshot and the pointer
\* position only, and a pointer-move back at the start position restores
\* the transform the gesture started from.
C34_Claimed_ReturnRestores ==
    /\ AnyMove => GestureTransform = TransformOfPointer
    /\ ReturnedToStart => GestureTransform = hist.begin.transform

\* C34 amended: within one gesture in a fixed container the transform
\* after a pointer-move is a function of the snapshot and the pointer
\* position only, whatever the pointer-moves before it; a pointer-move back
\* at the start position restores the transform the gesture started from,
\* except in a scale gesture begun exactly on the element's centre, where
\* it leaves the scale 0.1 (the distance 0 over the initial distance taken
\* as 1, clamped).
C34_PathIndependent ==
    /\ AnyMove => GestureTransform = TransformOfPointer
    /\ (ReturnedToStart /\ ~ScaleFromCentre) =>
           GestureTransform = hist.begin.transform
    /\ (ReturnedToStart /\ ScaleFromCentre) =>
           GestureTransform =
               [hist.begin.transform EXCEPT !.scale = Frac(1, 10)]

\* C34 witness: the second pointer-move of a move gesture, back at the
\* start position after a pointer-move that had pushed the element to the
\* container's edge, restored the position.
C34_Witness ==
    /\ ReturnedToStart
    /\ hist.begin.kind = "move"
    /\ moves = 2
    /\ hist.was.moved
    /\ hist.was.x = RAdd(hist.begin.x, Q(4000))
    /\ GestureTransform = hist.begin.transform

\* C34 witness: a scale gesture begun on the centre of an element of scale
\* 2, the pointer moved away and back, left the scale 0.1.
C34_WitnessCentre ==
    /\ ReturnedToStart /\ ScaleFromCentre
    /\ hist.was.moved /\ hist.was.x # hist.x
    /\ hist.begin.transform.scale = Q(2)
    /\ GestureTransform.scale = Frac(1, 10)

-----------------------------------------------------------------------------
(* C35: the indicator while updates overlap                                *)

Updates == {j \in JobIds : jobs[j].purpose = "update"}

\* as long as one update only has been started the indicator is shown
\* while it is in flight
C35_ShownWhileAlone ==
    (Cardinality(Updates) = 1 /\ UpdateInFlight) => isUpdatingTexture

\* C35 as claimed: isUpdatingTexture is true in every state in which at
\* least one texture update is in flight, also when two updates overlap and
\* one of them finishes first; it is false only when none is in flight.
C35_Claimed_TrueWhileInFlight == UpdateInFlight => isUpdatingTexture

-----------------------------------------------------------------------------
(* C36: the settlement of updateTexture                                    *)

\* updateTexture has been called for the request and its promise is
\* neither resolved nor rejected
InUpdateTexture(j) ==
    /\ jobs[j].purpose = "update"
    /\ jobs[j].pc \in {"findMaterial", "addTexture", "getMaterialList",
                       "setMaterial", "pending"}

\* a request is left unsettled by performTextureUpdate only when the
\* material name found for it is the empty string
C36_UnsettledOnlyUnnamed ==
    [][\A j \in JobIds :
          (jobs[j].pc # "pending" /\ jobs'[j].pc = "pending") =>
              service'.api /\ service'.tShirtMaterialName = ""]_vars

\* C36 as claimed: every call of updateTexture settles when the viewer
\* invokes each callback, so that isUpdatingTexture returns to false after
\* every texture update.
C36_Claimed_UpdateSettles ==
    /\ \A j \in JobIds : InUpdateTexture(j) ~> Returned(jobs[j])
    /\ isUpdatingTexture ~> ~isUpdatingTexture

-----------------------------------------------------------------------------
(* C37: the first texture after the viewer has loaded                      *)

\* the update started when initialize() resolves is computed from the
\* config of the render in which the init effect ran
C37_FromSignInConfig ==
    [][initMaterialList =>
          \A j \in JobIds : Starts(j) => jobs'[j].cfg = init.cfg]_vars

\* C37 as claimed: the texture update triggered when the viewer's
\* initialisation completes composes the configuration current at that
\* moment, so edits made while the viewer was loading are in the first
\* texture pushed.
C37_Claimed_FirstTextureCurrent ==
    [][initMaterialList =>
          \A j \in JobIds : Starts(j) => jobs'[j].cfg = config]_vars

-----------------------------------------------------------------------------
(* C38: the side an uploaded image is applied to                           *)

\* the FileReader of upload u has finished reading
LoadedUpload(u) == AppReaderOnLoad /\ u \in uploads /\ uploads' = uploads \ {u}

\* C38: when the read of an uploaded image completes the image is applied
\* to the side that was active when the upload started, also when the
\* active side was switched in between: that side's image source is set and
\* its image transform reset to 50/50/1/0; that side's text, the other side
\* and the base colour are as they were.
C38_UploadToStartSide ==
    [][\A u \in uploads :
          LoadedUpload(u) =>
              config' = [config EXCEPT
                            ![u.side].image.src = u.src,
                            ![u.side].image.transform =
                                Transform(Q(50), Q(50), Q(1), Q(0))]]_vars

\* C38 witness: the image chosen while the back was active has just been
\* read with the front active again; it is on the back, the front has none.
C38_Witness ==
    /\ hist.op = "readerOnLoad"
    /\ activeSide = "front"
    /\ HasImage(config.back) /\ ~HasImage(config.front)
    /\ config.back.image.transform = Transform(Q(50), Q(50), Q(1), Q(0))

-----------------------------------------------------------------------------
(* C39: the viewer client of a session                                     *)

\* C39 as claimed: while the user stays signed in the viewer is initialised
\* at most once: an auth state change with a fresh session of the same user
\* starts no second initialisation, and the timer that creates the viewer
\* client creates the first one.
C39_Claimed_OneViewerClient ==
    [][/\ tokenRefreshed => (init'.pc = "timer" => init.pc = "timer")
       /\ viewerInitTimer => ~service.current]_vars

-----------------------------------------------------------------------------
(* C40: the logout                                                         *)

\* C40: a handleLogout call awaits the logout entry of the audit log and
\* then calls signOut exactly once: signOut has been called once for every
\* call whose log attempt has finished and not yet for the call that is
\* waiting for it; it is called in the step in which the log attempt
\* finishes, whether the write succeeded, returned an error or threw, and
\* whether the entry was written for the user or for 'unknown'; and every
\* call whose log attempt finishes reaches its signOut.
C40_SignOutAfterLog ==
    /\ [](logout.signOuts =
             logout.calls - (IF logout.pc = "logAction" THEN 1 ELSE 0))
    /\ [][logout'.signOuts # logout.signOuts =>
              /\ logout.pc = "logAction"
              /\ logout'.pc = "signOut"
              /\ logout'.log \in LogOutcomes
              /\ logout'.signOuts = logout.signOuts + 1]_vars
    /\ (logout.pc = "logAction") ~>
           (logout.pc = "signOut" /\ logout.signOuts = logout.calls)

\* C40 witness: the second logout, of a panel without a user, whose log
\* write threw, has called signOut.
C40_Witness ==
    /\ logout.pc = "signOut"
    /\ logout.user = "unknown"
    /\ logout.log = "throws"
    /\ logout.calls = 2 /\ logout.signOuts = 2

====
